---- MODULE Spec2Model ----
(***************************************************************************)
(* A model of the core of the EVM engine: the word stack (core/src/stack.rs),*)
(*                                                                         *)
(* the stepping interpreter (core/src/lib.rs, core/src/eval/mod.rs) and the *)
(* stack executor (src/executor/stack/executor.rs).                        *)
(*                                                                         *)
(* Eight specifications share the module:                                   *)
(*   SpecStack     a Stack object driven by push / pop / peek / set;        *)
(*   SpecMachine   a Machine object driven by step / run / exit;            *)
(*   SpecReturn    an exited Machine on which return_value is called;       *)
(*   SpecRuntime   a Runtime whose interrupt resolutions are dropped;       *)
(*   SpecAddress   create_address applied to a creator and a nonce;         *)
(*   SpecResize    a ManagedBuffer or ManagedVec that is pushed and resized;*)
(*   SpecExecutor  a StackExecutor running one transaction of nested frames;*)
(*   SpecHost      the same with precompiles, access lists, a self-targeted *)
(*                 SELFDESTRUCT and a backend that may fail a commit.       *)
(* A call that ends in a panic or in the host's signal_error ends the whole *)
(* execution: `alive` becomes FALSE and no further call is made.            *)
(***************************************************************************)
EXTENDS Integers, Sequences, FiniteSets, TLC

VARIABLES
    stack,            \* SpecStack: the Stack object, [data, limit]
    stack_call,       \* SpecStack: the last call made on `stack` and what it returned
    stack_prev_call,  \* SpecStack: the call before the last one
    machine,          \* SpecMachine: the Machine object
    machine_call,     \* SpecMachine: the last call made on `machine` and what it returned
    run_loop,         \* SpecMachine: position of the caller inside Machine::run's loop
    executor,         \* SpecExecutor: the StackExecutor: config, substate stack, phase
    executor_call,    \* SpecExecutor: the last operation of the executor and its outcome
    overflow_checks,  \* build profile: TRUE = usize overflow panics, FALSE = it wraps
    alive             \* FALSE once a call has panicked / signalled an error

vars == <<stack, stack_call, stack_prev_call, machine, machine_call, run_loop,
          executor, executor_call, overflow_checks, alive>>

stackVars == <<stack, stack_call, stack_prev_call>>
machineVars == <<machine, machine_call, run_loop>>
executorVars == <<executor, executor_call>>

-----------------------------------------------------------------------------
(* Bounds of the model.                                                    *)

\* Stack limits range over 0..MaxLimit.
MaxLimit == 3
\* Words pushed / set by the stack driver range over 0..MaxWord.
MaxWord == 1

-----------------------------------------------------------------------------
(* Results.                                                                *)

NoVal == 0 - 1

\* Result::Ok(v); Ok(()) carries NoVal.
Ok(v) == [kind |-> "Ok", err |-> "", val |-> v]
\* Result::Err(ExitError::e)
Err(e) == [kind |-> "Err", err |-> e, val |-> NoVal]
\* The call did not return: a Rust panic or the host's signal_error.
Abort(why) == [kind |-> "Abort", err |-> why, val |-> NoVal]

\* The largest usize. TLC's integers end at 2^31 - 1, which stands for
\* usize::MAX of the build target; only "larger than any length" is used.
UsizeMax == 2147483647

\* a - b on usize in a build without overflow checks.
WrappingSub(a, b) == IF a >= b THEN a - b ELSE UsizeMax - (b - a) + 1

-----------------------------------------------------------------------------
(* ManagedVec, the host's vector: a sequence; index i (from 0) is seq[i+1].*)

\* ManagedVec::get(index): signal_error when index is out of range.
ManagedVec_get(seq, index) ==
    IF index < Len(seq) THEN Ok(seq[index + 1]) ELSE Abort("INDEX_OUT_OF_RANGE")

\* ManagedVec::remove(index) on an index in range.
ManagedVec_remove(seq, index) ==
    SubSeq(seq, 1, index) \o SubSeq(seq, index + 2, Len(seq))

\* ManagedVec::set(index, item) on an index in range.
ManagedVec_set(seq, index, item) == [seq EXCEPT ![index + 1] = item]

-----------------------------------------------------------------------------
(* Stack (core/src/stack.rs). Each operation returns the value returned    *)
(* (`ret`) and the stack after the call (`stack`).                         *)

Stack_new(limit) == [data |-> <<>>, limit |-> limit]

\* A pop that returns the error it builds under `last_index <= 0`.
Stack_pop_returning(s, checks) ==
    LET len == Len(s.data) IN
    IF checks /\ len < 1
    THEN [ret |-> Abort("attempt to subtract with overflow"), stack |-> s]
    ELSE LET last_index == WrappingSub(len, 1) IN
         IF last_index <= 0
         THEN [ret |-> Err("StackUnderflow"), stack |-> s]
         ELSE LET remove == ManagedVec_get(s.data, last_index) IN
              IF remove.kind = "Abort"
              THEN [ret |-> remove, stack |-> s]
              ELSE [ret |-> Ok(remove.val),
                    stack |-> [s EXCEPT !.data = ManagedVec_remove(s.data, last_index)]]

\* Stack::pop. `len - 1` is computed first: on an empty stack it panics
\* (overflow checks) or wraps to usize::MAX. The branch `last_index <= 0`
\* builds ExitError::StackUnderflow and drops it, so it changes nothing.
\* ManagedVec::get then signals INDEX_OUT_OF_RANGE for the wrapped index.
Stack_pop(s, checks) ==
    LET len == Len(s.data) IN
    IF checks /\ len < 1
    THEN [ret |-> Abort("attempt to subtract with overflow"), stack |-> s]
    ELSE LET last_index == WrappingSub(len, 1)
             remove == ManagedVec_get(s.data, last_index) IN
         IF remove.kind = "Abort"
         THEN [ret |-> remove, stack |-> s]
         ELSE [ret |-> Ok(remove.val),
               stack |-> [s EXCEPT !.data = ManagedVec_remove(s.data, last_index)]]

\* A push whose check is off by one: `len > limit`.
Stack_push_off_by_one(s, value) ==
    IF Len(s.data) > s.limit
    THEN [ret |-> Err("StackOverflow"), stack |-> s]
    ELSE [ret |-> Ok(NoVal), stack |-> [s EXCEPT !.data = Append(s.data, value)]]

\* Stack::push
Stack_push(s, value) ==
    IF Len(s.data) + 1 > s.limit
    THEN [ret |-> Err("StackOverflow"), stack |-> s]
    ELSE [ret |-> Ok(NoVal), stack |-> [s EXCEPT !.data = Append(s.data, value)]]

\* A peek that counts from the bottom of the stack.
Stack_peek_from_bottom(s, no_from_top) ==
    IF Len(s.data) > no_from_top
    THEN [ret |-> ManagedVec_get(s.data, no_from_top), stack |-> s]
    ELSE [ret |-> Err("StackUnderflow"), stack |-> s]

\* Stack::peek
Stack_peek(s, no_from_top) ==
    IF Len(s.data) > no_from_top
    THEN [ret |-> ManagedVec_get(s.data, Len(s.data) - no_from_top - 1), stack |-> s]
    ELSE [ret |-> Err("StackUnderflow"), stack |-> s]

\* Stack::set
Stack_set(s, no_from_top, val) ==
    IF Len(s.data) > no_from_top
    THEN LET len == Len(s.data) IN
         [ret |-> Ok(NoVal),
          stack |-> [s EXCEPT !.data = ManagedVec_set(s.data, len - no_from_top - 1, val)]]
    ELSE [ret |-> Err("StackUnderflow"), stack |-> s]

-----------------------------------------------------------------------------
(* The stack driver: any sequence of push, pop, peek and set.              *)

Words == 0..MaxWord
Depths == 0..(MaxLimit + 1)

StackCall(op, n, v, ret, pre) == [op |-> op, n |-> n, v |-> v, ret |-> ret, pre |-> pre]

NoMachine == [code |-> <<>>]
NoExecutor == [substates |-> <<>>]

InitStack ==
    /\ \E limit \in 0..MaxLimit : stack = Stack_new(limit)
    /\ stack_call = StackCall("new", 0, 0, Ok(NoVal), stack)
    /\ stack_prev_call = stack_call
    /\ overflow_checks \in BOOLEAN
    /\ alive = TRUE
    /\ machine = NoMachine
    /\ machine_call = "none"
    /\ run_loop = "idle"
    /\ executor = NoExecutor
    /\ executor_call = "none"

\* One call on the stack: record it, install the stack it leaves, and stop
\* the execution if it did not return.
StackApply(op, n, v, r) ==
    /\ alive
    /\ stack' = r.stack
    /\ stack_call' = StackCall(op, n, v, r.ret, stack)
    /\ stack_prev_call' = stack_call
    /\ alive' = (r.ret.kind # "Abort")
    /\ UNCHANGED <<machineVars, executorVars, overflow_checks>>

Pop == StackApply("pop", 0, 0, Stack_pop(stack, overflow_checks))

Push == \E v \in Words : StackApply("push", 0, v, Stack_push(stack, v))

Peek == \E n \in Depths : StackApply("peek", n, 0, Stack_peek(stack, n))

Set == \E n \in Depths, v \in Words : StackApply("set", n, v, Stack_set(stack, n, v))

NextStack == Pop \/ Push \/ Peek \/ Set

SpecStack == InitStack /\ [][NextStack]_vars

-----------------------------------------------------------------------------
(* Opcodes (core/src/opcode.rs): the byte values of the EVM instruction set.*)

STOP == 0
BALANCE == 49
POP == 80
SSTORE == 85
JUMP == 86
JUMPI == 87
JUMPDEST == 91
PUSH1 == 96
PUSH32 == 127
CALL == 241
RETURN == 243
INVALID == 254

\* Opcode::is_push: Some(n) for PUSHn, None (0 here) otherwise.
is_push(opcode) == IF opcode >= PUSH1 /\ opcode <= PUSH32 THEN opcode - PUSH1 + 1 ELSE 0

\* The opcodes that have an arm in eval's match: STOP..SIGNEXTEND, LT..SAR,
\* CALLDATALOAD..CODECOPY, POP..MSTORE8, JUMP..MSIZE, JUMPDEST, PUSH1..PUSH32,
\* DUP1..DUP16, SWAP1..SWAP16, RETURN, REVERT, INVALID.
Dispatched ==
    (0..11) \cup (16..29) \cup (53..57) \cup (80..83) \cup (86..89) \cup {91}
        \cup (96..159) \cup {243, 253, 254}

\* The opcodes whose semantics belong to the host: SHA3, the environment and
\* block queries, SLOAD, SSTORE, GAS, LOG0..LOG4, CREATE, CALL, CALLCODE,
\* DELEGATECALL, CREATE2, STATICCALL, SELFDESTRUCT.
External ==
    {32} \cup (48..52) \cup (58..63) \cup (64..72) \cup {84, 85, 90} \cup (160..164)
        \cup {240, 241, 242, 244, 245, 250, 255}

-----------------------------------------------------------------------------
(* Exit reasons, control signals and captures (core/src/error.rs,          *)
(* core/src/eval/mod.rs).                                                  *)

NoReason == [kind |-> "None", what |-> ""]
ExitSucceed(s) == [kind |-> "Succeed", what |-> s]
ExitError(e) == [kind |-> "Error", what |-> e]
ExitFatal(f) == [kind |-> "Fatal", what |-> f]
ExitRevert(r) == [kind |-> "Revert", what |-> r]

\* enum Control, and the panic of the interpreter as a fifth outcome.
Control(ctl, n, reason) == [ctl |-> ctl, n |-> n, reason |-> reason]
Continue(n) == Control("Continue", n, NoReason)
ControlJump(p) == Control("Jump", p, NoReason)
ControlExit(reason) == Control("Exit", NoVal, reason)
ControlTrap(opcode) == Control("Trap", opcode, NoReason)
ControlPanic(why) == Control("Panic", NoVal, [kind |-> "Abort", what |-> why])
NoControl == Control("None", NoVal, NoReason)

\* What step returns: Ok(()), Err(Capture::Exit(reason)), Err(Capture::Trap(opcode)),
\* or no return at all.
StepOk == [kind |-> "Ok", reason |-> NoReason, opcode |-> NoVal]
CaptureExit(reason) == [kind |-> "Exit", reason |-> reason, opcode |-> NoVal]
CaptureTrap(opcode) == [kind |-> "Trap", reason |-> NoReason, opcode |-> opcode]
StepAbort(why) == [kind |-> "Abort", reason |-> [kind |-> "Abort", what |-> why], opcode |-> NoVal]
NoReturn == [kind |-> "None", reason |-> NoReason, opcode |-> NoVal]

\* Machine::position, a Result<usize, ExitReason>.
PosOk(p) == [kind |-> "Ok", pc |-> p, reason |-> NoReason]
PosErr(reason) == [kind |-> "Err", pc |-> NoVal, reason |-> reason]

-----------------------------------------------------------------------------
(* Valids and Memory (core/src/valids.rs, core/src/memory.rs).             *)

\* Valids::new: sweep left to right; PUSHn skips its n payload bytes, a
\* JUMPDEST outside a payload is a valid destination.
RECURSIVE ValidsFrom(_, _)
ValidsFrom(code, i) ==
    IF i >= Len(code) THEN {}
    ELSE IF code[i + 1] = JUMPDEST THEN {i} \cup ValidsFrom(code, i + 1)
    ELSE IF is_push(code[i + 1]) > 0 THEN ValidsFrom(code, i + is_push(code[i + 1]) + 1)
    ELSE ValidsFrom(code, i + 1)

Valids_new(code) == ValidsFrom(code, 0)

\* Valids::is_valid
Valids_is_valid(valids, position) == position \in valids

\* Memory::new: no bytes stored, logical length 0.
Memory_new(limit) == [data |-> <<>>, effective_len |-> 0, limit |-> limit]

\* Memory::get(offset, size): `size` bytes; the byte at offset + i when the
\* store holds it, zero otherwise.
Memory_get(mem, offset, size) ==
    [i \in 1..size |-> IF offset + i <= Len(mem.data) THEN mem.data[offset + i] ELSE 0]

next_multiple_of_32(x) == ((x + 31) \div 32) * 32

\* Memory::resize_offset: grow the logical length to the next multiple of 32
\* that covers offset + len; a zero len changes nothing.
Memory_resize_offset(mem, offset, len) ==
    IF len = 0 \/ offset + len <= mem.effective_len THEN mem
    ELSE [mem EXCEPT !.effective_len = next_multiple_of_32(offset + len)]

-----------------------------------------------------------------------------
(* ManagedBufferAccess (eltypes/src/lib.rs) on a byte sequence.             *)

\* try_get: load_slice of one byte; None (NoVal) when index is out of range.
ManagedBuffer_try_get(buf, index) == IF index < Len(buf) THEN buf[index + 1] ELSE NoVal

\* get: the byte, or signal_error and no return.
ManagedBuffer_get(buf, index) ==
    IF ManagedBuffer_try_get(buf, index) # NoVal
    THEN Ok(ManagedBuffer_try_get(buf, index))
    ELSE Abort("INDEX_OUT_OF_RANGE_MSG")

\* resize(size, byte): a longer size appends `byte`; any other size empties
\* the buffer and refills it with `size` copies of `byte`.
ManagedBuffer_resize(buf, size, byte) ==
    IF size > Len(buf)
    THEN buf \o [i \in 1..(size - Len(buf)) |-> byte]
    ELSE [i \in 1..size |-> byte]

\* push(byte)
ManagedBuffer_push(buf, byte) == Append(buf, byte)

\* set(index, byte): set_slice of one byte; Err(InvalidSliceError) and no
\* change when the index is out of range.
Written(ret, data) == [ret |-> ret, data |-> data]
ManagedBuffer_set(buf, index, byte) ==
    IF index < Len(buf)
    THEN Written(Ok(NoVal), [buf EXCEPT ![index + 1] = byte])
    ELSE Written(Err("InvalidSliceError"), buf)

\* Resizable::resize(size, item) of a ManagedVec: a longer size pushes
\* clones of `item`; any other size clears the vector and pushes `size`
\* clones of `item`.
ManagedVec_resize(vec, size, item) ==
    IF size > Len(vec)
    THEN vec \o [i \in 1..(size - Len(vec)) |-> item]
    ELSE [i \in 1..size |-> item]

-----------------------------------------------------------------------------
(* Opcode semantics (core/src/eval/mod.rs, core/src/eval/misc.rs). Each    *)
(* returns the control signal and the machine it leaves.                   *)

Eval(control, m) == [control |-> control, machine |-> m]

\* The pop!/push! macros turn a stack Err into Control::Exit; a call that
\* does not return propagates.
StackFailure(ret) ==
    IF ret.kind = "Err" THEN ControlExit(ExitError(ret.err)) ELSE ControlPanic(ret.err)

eval_stop(m) == Eval(ControlExit(ExitSucceed("Stopped")), m)

eval_jumpdest(m) == Eval(Continue(1), m)

eval_invalid(m) == Eval(ControlExit(ExitError("DesignatedInvalid")), m)

eval_external(m, opcode) == Eval(ControlTrap(opcode), m)

\* misc::pop
eval_pop(m, checks) ==
    LET r == Stack_pop(m.stack, checks) IN
    IF r.ret.kind # "Ok" THEN Eval(StackFailure(r.ret), m)
    ELSE Eval(Continue(1), [m EXCEPT !.stack = r.stack])

\* misc::push(state, n, position) for n = 1: the byte after the opcode, or 0
\* when the code ends before it.
eval_push1(m, position) ==
    LET byte == ManagedBuffer_try_get(m.code, position + 1)
        r == Stack_push(m.stack, IF byte = NoVal THEN 0 ELSE byte) IN
    IF r.ret.kind # "Ok" THEN Eval(StackFailure(r.ret), m)
    ELSE Eval(Continue(1 + 1), [m EXCEPT !.stack = r.stack])

\* misc::jump
eval_jump(m, checks) ==
    LET r == Stack_pop(m.stack, checks) IN
    IF r.ret.kind # "Ok" THEN Eval(StackFailure(r.ret), m)
    ELSE IF Valids_is_valid(m.valids, r.ret.val)
         THEN Eval(ControlJump(r.ret.val), [m EXCEPT !.stack = r.stack])
         ELSE Eval(ControlExit(ExitError("InvalidJump")), [m EXCEPT !.stack = r.stack])

\* misc::jumpi: pop the destination and the condition; a non-zero condition
\* jumps as JUMP does, a zero one continues with the next opcode.
eval_jumpi(m, checks) ==
    LET r1 == Stack_pop(m.stack, checks) IN
    IF r1.ret.kind # "Ok" THEN Eval(StackFailure(r1.ret), m)
    ELSE LET r2 == Stack_pop(r1.stack, checks) IN
         IF r2.ret.kind # "Ok" THEN Eval(StackFailure(r2.ret), [m EXCEPT !.stack = r1.stack])
         ELSE IF r2.ret.val # 0
              THEN IF Valids_is_valid(m.valids, r1.ret.val)
                   THEN Eval(ControlJump(r1.ret.val), [m EXCEPT !.stack = r2.stack])
                   ELSE Eval(ControlExit(ExitError("InvalidJump")),
                             [m EXCEPT !.stack = r2.stack])
              ELSE Eval(Continue(1), [m EXCEPT !.stack = r2.stack])

\* misc::ret: pop start and len, grow memory to cover the range, set the
\* return range, exit with Returned.
eval_return(m, checks) ==
    LET r1 == Stack_pop(m.stack, checks) IN
    IF r1.ret.kind # "Ok" THEN Eval(StackFailure(r1.ret), m)
    ELSE LET r2 == Stack_pop(r1.stack, checks) IN
         IF r2.ret.kind # "Ok" THEN Eval(StackFailure(r2.ret), [m EXCEPT !.stack = r1.stack])
         ELSE Eval(ControlExit(ExitSucceed("Returned")),
                   [m EXCEPT !.stack = r2.stack,
                             !.memory = Memory_resize_offset(m.memory, r1.ret.val, r2.ret.val),
                             !.return_range = [start |-> r1.ret.val,
                                               end |-> r1.ret.val + r2.ret.val]])

\* eval: the match over the opcode. Every opcode without an arm, the host's
\* opcodes and the unassigned bytes alike, reaches `_ => panic!`.
eval(m, opcode, position, checks) ==
    CASE opcode = STOP -> eval_stop(m)
      [] opcode = POP -> eval_pop(m, checks)
      [] opcode = JUMP -> eval_jump(m, checks)
      [] opcode = JUMPI -> eval_jumpi(m, checks)
      [] opcode = JUMPDEST -> eval_jumpdest(m)
      [] opcode = PUSH1 -> eval_push1(m, position)
      [] opcode = RETURN -> eval_return(m, checks)
      [] opcode = INVALID -> eval_invalid(m)
      [] opcode \notin Dispatched -> Eval(ControlPanic("Opcode doesn't found!"), m)

-----------------------------------------------------------------------------
(* Machine (core/src/lib.rs).                                              *)

\* A machine whose validity map marks every JUMPDEST byte, PUSH payloads
\* included.
Machine_new_every_jumpdest(code, stack_limit, memory_limit) ==
    [code |-> code,
     position |-> PosOk(0),
     return_range |-> [start |-> 0, end |-> 0],
     valids |-> {i \in 0..(Len(code) - 1) : code[i + 1] = JUMPDEST},
     memory |-> Memory_new(memory_limit),
     stack |-> Stack_new(stack_limit)]

\* Machine::new
Machine_new(code, stack_limit, memory_limit) ==
    [code |-> code,
     position |-> PosOk(0),
     return_range |-> [start |-> 0, end |-> 0],
     valids |-> Valids_new(code),
     memory |-> Memory_new(memory_limit),
     stack |-> Stack_new(stack_limit)]

\* Machine::exit
Machine_exit(m, reason) == [m EXCEPT !.position = PosErr(reason)]

StepResult(ret, control, m) == [ret |-> ret, control |-> control, machine |-> m]

\* A step that advances the PC by one whatever Continue carries.
Machine_step_by_one(m, checks) ==
    IF m.position.kind = "Err"
    THEN StepResult(CaptureExit(m.position.reason), NoControl, m)
    ELSE LET position == m.position.pc
             v == ManagedBuffer_get(m.code, position) IN
         IF v.kind = "Abort" THEN StepResult(StepAbort(v.err), NoControl, m)
         ELSE LET e == eval(m, v.val, position, checks) IN
              CASE e.control.ctl = "Continue" ->
                       StepResult(StepOk, e.control,
                                  [e.machine EXCEPT !.position = PosOk(position + 1)])
                [] e.control.ctl = "Exit" ->
                       StepResult(CaptureExit(e.control.reason), e.control,
                                  [e.machine EXCEPT !.position = PosErr(e.control.reason)])
                [] e.control.ctl = "Jump" ->
                       StepResult(StepOk, e.control,
                                  [e.machine EXCEPT !.position = PosOk(e.control.n)])
                [] e.control.ctl = "Trap" ->
                       StepResult(CaptureTrap(e.control.n), e.control,
                                  [e.machine EXCEPT !.position = PosOk(position + 1)])
                [] e.control.ctl = "Panic" ->
                       StepResult(StepAbort(e.control.reason.what), e.control, e.machine)

\* A step that does not look at the PC's error tag: an exited machine
\* restarts at offset 0.
Machine_step_ignoring_exit(m, checks) ==
    LET position == IF m.position.kind = "Err" THEN 0 ELSE m.position.pc
        v == ManagedBuffer_get(m.code, position) IN
    IF v.kind = "Abort" THEN StepResult(StepAbort(v.err), NoControl, m)
    ELSE LET e == eval(m, v.val, position, checks) IN
         CASE e.control.ctl = "Continue" ->
                  StepResult(StepOk, e.control,
                             [e.machine EXCEPT !.position = PosOk(position + e.control.n)])
           [] e.control.ctl = "Exit" ->
                  StepResult(CaptureExit(e.control.reason), e.control,
                             [e.machine EXCEPT !.position = PosErr(e.control.reason)])
           [] e.control.ctl = "Jump" ->
                  StepResult(StepOk, e.control,
                             [e.machine EXCEPT !.position = PosOk(e.control.n)])
           [] e.control.ctl = "Trap" ->
                  StepResult(CaptureTrap(e.control.n), e.control,
                             [e.machine EXCEPT !.position = PosOk(position + 1)])
           [] e.control.ctl = "Panic" ->
                  StepResult(StepAbort(e.control.reason.what), e.control, e.machine)

\* Machine::step. An erroneous PC is returned as the exit capture. The byte
\* at the PC is read with ManagedBufferAccess::get, which does not return
\* when the PC is at or past the end of the code; `Some(Opcode(v))` is never
\* None, so the arm that would stop the machine is never taken.
Machine_step(m, checks) ==
    IF m.position.kind = "Err"
    THEN StepResult(CaptureExit(m.position.reason), NoControl, m)
    ELSE LET position == m.position.pc
             v == ManagedBuffer_get(m.code, position) IN
         IF v.kind = "Abort" THEN StepResult(StepAbort(v.err), NoControl, m)
         ELSE LET e == eval(m, v.val, position, checks) IN
              CASE e.control.ctl = "Continue" ->
                       StepResult(StepOk, e.control,
                                  [e.machine EXCEPT !.position = PosOk(position + e.control.n)])
                [] e.control.ctl = "Exit" ->
                       StepResult(CaptureExit(e.control.reason), e.control,
                                  [e.machine EXCEPT !.position = PosErr(e.control.reason)])
                [] e.control.ctl = "Jump" ->
                       StepResult(StepOk, e.control,
                                  [e.machine EXCEPT !.position = PosOk(e.control.n)])
                [] e.control.ctl = "Trap" ->
                       StepResult(CaptureTrap(e.control.n), e.control,
                                  [e.machine EXCEPT !.position = PosOk(position + 1)])
                [] e.control.ctl = "Panic" ->
                       StepResult(StepAbort(e.control.reason.what), e.control, e.machine)

\* What return_value gives back: the buffer, or no return at all.
Buffer(bytes) == [kind |-> "Ok", err |-> "", bytes |-> bytes]
BufferAbort(why) == [kind |-> "Abort", err |-> why, bytes |-> <<>>]

\* U256::as_usize: the value, or a panic when it does not fit a usize.
U256_as_usize(x, usize_max) ==
    IF x > usize_max THEN Abort("Integer overflow when casting to usize") ELSE Ok(x)

\* Machine::return_value, with usize::MAX = usize_max. The three branches:
\* start beyond usize::MAX, only end beyond it, both within it. The length
\* `end - start` is cast with as_usize in each of them.
Machine_return_value(m, usize_max) ==
    LET start == m.return_range.start
        end == m.return_range.end
        size == U256_as_usize(end - start, usize_max)
    IN  IF start > usize_max
        THEN IF size.kind = "Abort" THEN BufferAbort(size.err)
             ELSE Buffer(ManagedBuffer_resize(<<>>, size.val, 0))
        ELSE IF end > usize_max
        THEN LET ret == Memory_get(m.memory, start, usize_max - start) IN
             IF size.kind = "Abort" THEN BufferAbort(size.err)
             ELSE IF Len(ret) < size.val
                  THEN Buffer(ret \o [i \in 1..(size.val - Len(ret)) |-> 0])
                  ELSE Buffer(ret)
        ELSE Buffer(Memory_get(m.memory, start, end - start))

\* Machine::run's loop: `Ok(()) => ()` goes round again, `Err(res) => return res`.
Machine_run_continues(ret) == ret.kind = "Ok"

-----------------------------------------------------------------------------
(* The machine driver: a Machine built over a program, then any sequence   *)
(* of step(), run() and exit(reason). run() is its loop: RunEnter enters   *)
(* it, each RunStep is one iteration, and the iteration whose step yields a *)
(* capture returns it.                                                     *)

\* Programs are all byte strings over Alphabet up to MaxCodeLen bytes, and
\* the longer Scenarios.
MaxCodeLen == 3
\* Machine::new's stack_limit.
MachineStackLimit == 2

\* 12 (0x0c) is a byte value no opcode is assigned to.
Alphabet == {STOP, POP, JUMP, JUMPDEST, PUSH1, RETURN, INVALID, BALANCE, 12}

Scenarios ==
    { <<JUMPDEST, PUSH1, 0, JUMP>>,
      <<JUMPDEST, PUSH1, 0, PUSH1, 0, JUMP>>,
      <<PUSH1, 5, JUMP, STOP, JUMPDEST, STOP>>,
      <<PUSH1, 4, JUMP, INVALID, JUMPDEST, STOP>>,
      <<PUSH1, 1, PUSH1, 0, RETURN>>,
      <<PUSH1, 0, SSTORE>>,
      <<PUSH1, 0, CALL>>,
      <<PUSH1, 4, JUMP, PUSH1, JUMPDEST, STOP>>,
      <<PUSH1, 1, PUSH1, 6, JUMPI, STOP, JUMPDEST, STOP>>,
      <<PUSH1, 0, PUSH1, 6, JUMPI, STOP, JUMPDEST>>,
      <<PUSH1, 1, PUSH1, 6, JUMPI, PUSH1, JUMPDEST>>,
      <<PUSH1, 1, PUSH1, 9, JUMPI, STOP>> }

Programs == UNION {[1..n -> Alphabet] : n \in 0..MaxCodeLen} \cup Scenarios

ExitReasons == {ExitError("OutOfGas"), ExitFatal("NotSupported")}

\* op: the call; arg: exit's reason; ret: what the call returned (NoReturn
\* while run is still looping); pre: the machine before the call;
\* step_pre / step_ret / control: the machine before the last step made by
\* the call, what that step returned and the control signal it interpreted;
\* first_capture: the first capture a step of this call produced;
\* stepped_after: whether a step was made after that capture.
MachineCall(op, arg, ret, pre, step_pre, step_ret, control, first_capture, stepped_after) ==
    [op |-> op, arg |-> arg, ret |-> ret, pre |-> pre, step_pre |-> step_pre,
     step_ret |-> step_ret, control |-> control, first_capture |-> first_capture,
     stepped_after |-> stepped_after]

InitMachine ==
    /\ \E code \in Programs : machine = Machine_new(code, MachineStackLimit, UsizeMax)
    /\ machine_call = MachineCall("new", NoReason, NoReturn, machine, machine, NoReturn,
                                  NoControl, NoReturn, FALSE)
    /\ run_loop = "idle"
    /\ overflow_checks \in BOOLEAN
    /\ alive = TRUE
    /\ stack = Stack_new(0)
    /\ stack_call = StackCall("new", 0, 0, Ok(NoVal), stack)
    /\ stack_prev_call = stack_call
    /\ executor = NoExecutor
    /\ executor_call = "none"

\* step()
Step ==
    /\ alive
    /\ run_loop = "idle"
    /\ \E r \in {Machine_step(machine, overflow_checks)} :
       /\ machine' = r.machine
       /\ machine_call' = MachineCall("step", NoReason, r.ret, machine, machine, r.ret,
                                      r.control,
                                      IF r.ret.kind \in {"Exit", "Trap"} THEN r.ret ELSE NoReturn,
                                      FALSE)
       /\ alive' = (r.ret.kind # "Abort")
    /\ UNCHANGED <<stackVars, executorVars, run_loop, overflow_checks>>

\* run() is called: the loop is entered.
RunEnter ==
    /\ alive
    /\ run_loop = "idle"
    /\ run_loop' = "running"
    /\ machine_call' = MachineCall("run", NoReason, NoReturn, machine, machine, NoReturn,
                                   NoControl, NoReturn, FALSE)
    /\ UNCHANGED <<stackVars, executorVars, machine, overflow_checks, alive>>

\* One iteration of run()'s loop.
RunStep ==
    /\ alive
    /\ run_loop = "running"
    /\ \E r \in {Machine_step(machine, overflow_checks)} :
       LET captured == r.ret.kind \in {"Exit", "Trap"}
           had == machine_call.first_capture # NoReturn IN
       /\ machine' = r.machine
       /\ run_loop' = IF Machine_run_continues(r.ret) THEN "running" ELSE "idle"
       /\ machine_call' =
              [machine_call EXCEPT
                  !.ret = IF Machine_run_continues(r.ret) THEN NoReturn ELSE r.ret,
                  !.step_pre = machine,
                  !.step_ret = r.ret,
                  !.control = r.control,
                  !.first_capture = IF ~had /\ captured THEN r.ret ELSE @,
                  !.stepped_after = had]
       /\ alive' = (r.ret.kind # "Abort")
    /\ UNCHANGED <<stackVars, executorVars, overflow_checks>>

\* exit(reason)
Exit ==
    /\ alive
    /\ run_loop = "idle"
    /\ \E reason \in ExitReasons :
          /\ machine' = Machine_exit(machine, reason)
          /\ machine_call' = MachineCall("exit", reason, NoReturn, machine, machine, NoReturn,
                                         NoControl, NoReturn, FALSE)
    /\ UNCHANGED <<stackVars, executorVars, run_loop, overflow_checks, alive>>

NextMachine == Step \/ RunEnter \/ RunStep \/ Exit

SpecMachine == InitMachine /\ [][NextMachine]_vars

-----------------------------------------------------------------------------
(* Runtime and its interrupt resolutions (runtime/src/interrupt.rs). A     *)
(* Runtime owns a status and a Machine; a ResolveCreate or ResolveCall     *)
(* borrows the Runtime and writes to both when it is dropped. In this      *)
(* driver the variable `machine` holds the Runtime.                        *)

StatusOk == [kind |-> "Ok", reason |-> NoReason]
StatusErr(reason) == [kind |-> "Err", reason |-> reason]

Runtime(status, m) == [status |-> status, machine |-> m]

\* A drop that leaves a machine that has exited as it is.
ResolveCreate_drop_keeping_exit(runtime) ==
    Runtime(StatusErr(ExitFatal("UnhandledInterrupt")),
            IF runtime.machine.position.kind = "Err" THEN runtime.machine
            ELSE Machine_exit(runtime.machine, ExitFatal("UnhandledInterrupt")))

\* Drop for ResolveCreate
ResolveCreate_drop(runtime) ==
    Runtime(StatusErr(ExitFatal("UnhandledInterrupt")),
            Machine_exit(runtime.machine, ExitFatal("UnhandledInterrupt")))

\* Drop for ResolveCall
ResolveCall_drop(runtime) ==
    Runtime(StatusErr(ExitFatal("UnhandledInterrupt")),
            Machine_exit(runtime.machine, ExitFatal("UnhandledInterrupt")))

\* op: the call; kind: the resolution dropped; ret: what a step returned;
\* pre: the runtime before the call; dropped: a resolution has been dropped
\* and exit has not been called on the machine since; before_drop: the PC
\* and the status the last drop found.
RuntimeCall(op, kind, ret, pre, dropped, before_drop) ==
    [op |-> op, kind |-> kind, ret |-> ret, pre |-> pre, dropped |-> dropped,
     before_drop |-> before_drop]

InitRuntime ==
    /\ \E code \in Scenarios :
          machine = Runtime(StatusOk, Machine_new(code, MachineStackLimit, UsizeMax))
    /\ machine_call = RuntimeCall("new", "", NoReturn, machine, FALSE, machine)
    /\ run_loop = "idle"
    /\ overflow_checks \in BOOLEAN
    /\ alive = TRUE
    /\ stack = Stack_new(0)
    /\ stack_call = StackCall("new", 0, 0, Ok(NoVal), stack)
    /\ stack_prev_call = stack_call
    /\ executor = NoExecutor
    /\ executor_call = "none"

\* step() of the runtime's machine.
RuntimeStep ==
    /\ alive
    /\ \E r \in {Machine_step(machine.machine, overflow_checks)} :
       /\ machine' = [machine EXCEPT !.machine = r.machine]
       /\ machine_call' = [machine_call EXCEPT !.op = "step", !.kind = "", !.ret = r.ret,
                                               !.pre = machine]
       /\ alive' = (r.ret.kind # "Abort")
    /\ UNCHANGED <<stackVars, executorVars, run_loop, overflow_checks>>

\* exit(reason) of the runtime's machine.
RuntimeExit ==
    /\ alive
    /\ \E reason \in ExitReasons :
          /\ machine' = [machine EXCEPT !.machine = Machine_exit(@, reason)]
          /\ machine_call' = [machine_call EXCEPT !.op = "exit", !.kind = "", !.ret = NoReturn,
                                                  !.pre = machine, !.dropped = FALSE]
    /\ UNCHANGED <<stackVars, executorVars, run_loop, overflow_checks, alive>>

\* A ResolveCreate that borrowed the runtime is dropped.
DropResolveCreate ==
    /\ alive
    /\ machine' = ResolveCreate_drop(machine)
    /\ machine_call' = RuntimeCall("drop", "Create", NoReturn, machine, TRUE, machine)
    /\ UNCHANGED <<stackVars, executorVars, run_loop, overflow_checks, alive>>

\* A ResolveCall that borrowed the runtime is dropped.
DropResolveCall ==
    /\ alive
    /\ machine' = ResolveCall_drop(machine)
    /\ machine_call' = RuntimeCall("drop", "Call", NoReturn, machine, TRUE, machine)
    /\ UNCHANGED <<stackVars, executorVars, run_loop, overflow_checks, alive>>

NextRuntime == RuntimeStep \/ RuntimeExit \/ DropResolveCreate \/ DropResolveCall

SpecRuntime == InitRuntime /\ [][NextRuntime]_vars

-----------------------------------------------------------------------------
(* The return-value driver: a machine that has exited with some return     *)
(* range over some memory contents, on which return_value() is called. The *)
(* address space is scaled down: usize::MAX is SmallUsizeMax, and the 256-  *)
(* bit endpoints range up to MaxEndpoint, beyond it.                       *)

\* usize::MAX of the scaled-down address space.
SmallUsizeMax == 3
\* The largest endpoint of a return range: large enough for a range that
\* starts beyond usize::MAX and is longer than usize::MAX.
MaxEndpoint == 2 * SmallUsizeMax + 2
\* The bytes memory may hold.
MemoryBytes == {0, 171}

ReturnCall(op, ret, pre) == [op |-> op, ret |-> ret, pre |-> pre]

InitReturn ==
    /\ \E start \in 0..MaxEndpoint, end \in 0..MaxEndpoint, n \in 0..SmallUsizeMax :
          \E data \in [1..n -> MemoryBytes] :
             /\ start <= end
             /\ machine = [Machine_new(<<STOP>>, MachineStackLimit, SmallUsizeMax) EXCEPT
                               !.position = PosErr(ExitSucceed("Returned")),
                               !.return_range = [start |-> start, end |-> end],
                               !.memory.data = data,
                               !.memory.effective_len = next_multiple_of_32(n)]
    /\ machine_call = ReturnCall("new", Buffer(<<>>), machine)
    /\ run_loop = "idle"
    /\ overflow_checks \in BOOLEAN
    /\ alive = TRUE
    /\ stack = Stack_new(0)
    /\ stack_call = StackCall("new", 0, 0, Ok(NoVal), stack)
    /\ stack_prev_call = stack_call
    /\ executor = NoExecutor
    /\ executor_call = "none"

\* return_value()
ReturnValue ==
    /\ alive
    /\ LET r == Machine_return_value(machine, SmallUsizeMax) IN
       /\ machine_call' = ReturnCall("return_value", r, machine)
       /\ alive' = (r.kind # "Abort")
    /\ UNCHANGED <<stackVars, executorVars, machine, run_loop, overflow_checks>>

NextReturn == ReturnValue

SpecReturn == InitReturn /\ [][NextReturn]_vars

-----------------------------------------------------------------------------
(* Config (runtime/src/lib.rs): the options the executor reads.            *)

\* The largest Config::call_stack_limit of the model's configurations.
CallStackLimit == 2
\* Config::call_stipend of the model's configurations.
CallStipend == 2
\* Config::max_refund_quotient of the model's configurations.
MaxRefundQuotient == 2
\* Config::create_contract_limit of the model's configurations.
CreateContractLimit == 1

Config(call_stack_limit, l64_after_gas, estimate) ==
    [call_stack_limit |-> call_stack_limit,
     call_stipend |-> CallStipend,
     max_refund_quotient |-> MaxRefundQuotient,
     call_l64_after_gas |-> l64_after_gas,
     estimate |-> estimate,
     increase_state_access_gas |-> TRUE,
     create_increase_nonce |-> TRUE,
     disallow_executable_format |-> TRUE,
     create_contract_limit |-> CreateContractLimit]

-----------------------------------------------------------------------------
(* Gasometer (gasometer/src/lib.rs): the gas limit, the gas used, the gas  *)
(* of the memory in use, the refund counter; `failed` once an operation    *)
(* has run out of gas or fail() was called. Each recording returns its     *)
(* Result and the gasometer left.                                          *)

Gasometer_new(gas_limit) ==
    [gas_limit |-> gas_limit, used_gas |-> 0, memory_gas |-> 0, refunded_gas |-> 0,
     failed |-> FALSE]

\* gas(): the remaining gas; 0 once failed.
Gasometer_gas(g) == IF g.failed THEN 0 ELSE g.gas_limit - g.used_gas - g.memory_gas

\* total_used_gas(): the whole limit once failed.
Gasometer_total_used_gas(g) == IF g.failed THEN g.gas_limit ELSE g.used_gas + g.memory_gas

\* refunded_gas(): 0 once failed.
Gasometer_refunded_gas(g) == IF g.failed THEN 0 ELSE g.refunded_gas

Recorded(ret, g) == [ret |-> ret, gasometer |-> g]

\* fail(): consume all gas.
Gasometer_fail(g) == [g EXCEPT !.failed = TRUE]

\* record_cost(cost): OutOfGas, and failed, when the cost exceeds the gas left.
Gasometer_record_cost(g, cost) ==
    IF g.failed \/ Gasometer_gas(g) < cost
    THEN Recorded(Err("OutOfGas"), Gasometer_fail(g))
    ELSE Recorded(Ok(NoVal), [g EXCEPT !.used_gas = @ + cost])

\* An intrinsic cost that is refused without the gas being lost.
Gasometer_record_transaction_keeps_gas(g, cost) ==
    IF g.failed \/ Gasometer_gas(g) < cost
    THEN Recorded(Err("OutOfGas"), g)
    ELSE Recorded(Ok(NoVal), [g EXCEPT !.used_gas = @ + cost])

\* record_transaction(cost): as record_cost, for the intrinsic cost.
Gasometer_record_transaction(g, cost) == Gasometer_record_cost(g, cost)

\* record_stipend(stipend): give gas back. used_gas is unsigned: taking more
\* than was used does not return.
Gasometer_record_stipend(g, stipend) ==
    IF g.failed THEN Recorded(Err("OutOfGas"), g)
    ELSE IF stipend > g.used_gas
         THEN Recorded(Abort("attempt to subtract with overflow"), g)
         ELSE Recorded(Ok(NoVal), [g EXCEPT !.used_gas = @ - stipend])

\* record_deposit(len): 200 gas for each byte of deployed code.
Gasometer_record_deposit(g, len) == Gasometer_record_cost(g, len * 200)

\* record_refund(refund)
Gasometer_record_refund(g, refund) ==
    IF g.failed THEN Recorded(Err("OutOfGas"), g)
    ELSE Recorded(Ok(NoVal), [g EXCEPT !.refunded_gas = @ + refund])

-----------------------------------------------------------------------------
(* StackSubstateMetadata (src/executor/stack/executor.rs).                 *)

\* Accessed::default(), as Some(..); the Option is None when `some` is FALSE.
Accessed(some) == [some |-> some, accessed_addresses |-> {}, accessed_storage |-> {}]

\* StackSubstateMetadata::new
StackSubstateMetadata_new(gas_limit, config) ==
    [gasometer |-> Gasometer_new(gas_limit),
     is_static |-> FALSE,
     depth |-> NoVal,
     accessed |-> Accessed(config.increase_state_access_gas)]

Swallowed(ret, metadata) == [ret |-> ret, metadata |-> metadata]

\* A commit that leaves the child's refunds behind.
swallow_commit_without_refund(self, other) ==
    LET r1 == Gasometer_record_stipend(self.gasometer, Gasometer_gas(other.gasometer)) IN
    IF r1.ret.kind # "Ok" THEN Swallowed(r1.ret, self)
    ELSE Swallowed(Ok(NoVal),
             [self EXCEPT
                 !.gasometer = r1.gasometer,
                 !.accessed =
                     IF other.accessed.some /\ self.accessed.some
                     THEN [@ EXCEPT
                              !.accessed_addresses = @ \cup other.accessed.accessed_addresses,
                              !.accessed_storage = @ \cup other.accessed.accessed_storage]
                     ELSE @])

\* swallow_commit: the child's remaining gas as stipend, the child's refunds,
\* then the child's warm sets appended to the parent's.
swallow_commit(self, other) ==
    LET r1 == Gasometer_record_stipend(self.gasometer, Gasometer_gas(other.gasometer)) IN
    IF r1.ret.kind # "Ok" THEN Swallowed(r1.ret, self)
    ELSE LET r2 == Gasometer_record_refund(r1.gasometer,
                                           Gasometer_refunded_gas(other.gasometer)) IN
         IF r2.ret.kind # "Ok" THEN Swallowed(r2.ret, [self EXCEPT !.gasometer = r1.gasometer])
         ELSE Swallowed(Ok(NoVal),
                  [self EXCEPT
                      !.gasometer = r2.gasometer,
                      !.accessed =
                          IF other.accessed.some /\ self.accessed.some
                          THEN [@ EXCEPT
                                   !.accessed_addresses =
                                       @ \cup other.accessed.accessed_addresses,
                                   !.accessed_storage =
                                       @ \cup other.accessed.accessed_storage]
                          ELSE @])

\* A revert that also takes the child's refunds.
swallow_revert_with_refund(self, other) ==
    LET r1 == Gasometer_record_stipend(self.gasometer, Gasometer_gas(other.gasometer)) IN
    IF r1.ret.kind # "Ok" THEN Swallowed(r1.ret, self)
    ELSE Swallowed(Ok(NoVal),
             [self EXCEPT !.gasometer =
                 Gasometer_record_refund(r1.gasometer,
                                         Gasometer_refunded_gas(other.gasometer)).gasometer])

\* swallow_revert: the child's remaining gas as stipend, nothing else.
swallow_revert(self, other) ==
    LET r1 == Gasometer_record_stipend(self.gasometer, Gasometer_gas(other.gasometer)) IN
    IF r1.ret.kind # "Ok" THEN Swallowed(r1.ret, self)
    ELSE Swallowed(Ok(NoVal), [self EXCEPT !.gasometer = r1.gasometer])

\* A discard that gives the child's remaining gas back, as a revert does.
swallow_discard_with_gas(self, other) == swallow_revert(self, other)

\* swallow_discard: nothing is taken.
swallow_discard(self, other) == Swallowed(Ok(NoVal), self)

\* A child whose is_static is the requested flag alone.
spit_child_requested_only(self, gas_limit, is_static) ==
    [gasometer |-> Gasometer_new(gas_limit),
     is_static |-> is_static,
     depth |-> IF self.depth = NoVal THEN 0 ELSE self.depth + 1,
     accessed |-> Accessed(self.accessed.some)]

\* spit_child
spit_child(self, gas_limit, is_static) ==
    [gasometer |-> Gasometer_new(gas_limit),
     is_static |-> is_static \/ self.is_static,
     depth |-> IF self.depth = NoVal THEN 0 ELSE self.depth + 1,
     accessed |-> Accessed(self.accessed.some)]

\* access_address: into the warm set, when there is one.
access_address(self, address) ==
    IF self.accessed.some
    THEN [self EXCEPT !.accessed.accessed_addresses = @ \cup {address}]
    ELSE self

\* access_storage
access_storage(self, address, key) ==
    IF self.accessed.some
    THEN [self EXCEPT !.accessed.accessed_storage = @ \cup {<<address, key>>}]
    ELSE self

\* An access list is a sequence of <<address, keys>>, keys a sequence: its
\* addresses and its (address, key) pairs.
AccessListAddresses(access_list) == {access_list[i][1] : i \in 1..Len(access_list)}
AccessListSlots(access_list) ==
    UNION {{<<access_list[i][1], access_list[i][2][j]>> : j \in 1..Len(access_list[i][2])} :
              i \in 1..Len(access_list)}

-----------------------------------------------------------------------------
(* The backend behind StackState (the trait at executor.rs:197-220): the   *)
(* world as one substate sees it. Every account has one storage slot.      *)

\* The accounts the backend has a record of when the transaction starts:
\* "caller.0" is the address a Legacy create of the caller at nonce 0 makes.
\* An account at another address ("precompile", "nobody", the other
\* addresses creates make) gets its record when it is first touched or
\* written to; an account the backend has no record of reads as empty.
Addresses == {"caller", "contract", "caller.0"}

\* The storage key of the one slot.
Slot == "slot"

State_known(state, address) == address \in DOMAIN state.balance
State_code(state, address) ==
    IF State_known(state, address) THEN state.code[address] ELSE <<>>
State_nonce(state, address) ==
    IF State_known(state, address) THEN state.nonce[address] ELSE 0
State_balance(state, address) ==
    IF State_known(state, address) THEN state.balance[address] ELSE 0
State_storage(state, address) ==
    IF State_known(state, address) THEN state.storage[address] ELSE 0

\* A function with one more argument, mapped to `value`.
Extended(f, address, value) ==
    [a \in DOMAIN f \cup {address} |-> IF a \in DOMAIN f THEN f[a] ELSE value]

\* The world with a record, empty if new, of the account: what a write to
\* the account starts from.
State_with_account(state, address) ==
    IF State_known(state, address) THEN state
    ELSE [state EXCEPT !.storage = Extended(@, address, 0),
                       !.balance = Extended(@, address, 0),
                       !.code = Extended(@, address, <<>>),
                       !.nonce = Extended(@, address, 0)]

Transfer(source, target, value) == [source |-> source, target |-> target, value |-> value]
NoTransfer == [source |-> "", target |-> "", value |-> NoVal]

Changed(ret, state) == [ret |-> ret, state |-> state]

State_inc_nonce(state, address) ==
    [State_with_account(state, address) EXCEPT !.nonce[address] = @ + 1]

State_set_storage(state, address, value) ==
    [State_with_account(state, address) EXCEPT !.storage[address] = value]

State_reset_storage(state, address) ==
    [State_with_account(state, address) EXCEPT !.storage[address] = 0]

\* touch: the account has a record from now on, empty if it had none.
State_touch(state, address) == State_with_account(state, address)

State_log(state, address) == [state EXCEPT !.logs = Append(@, address)]

State_set_code(state, address, code) ==
    [State_with_account(state, address) EXCEPT !.code[address] = code]

State_set_deleted(state, address) == [state EXCEPT !.deleted = @ \cup {address}]

State_reset_balance(state, address) ==
    [State_with_account(state, address) EXCEPT !.balance[address] = 0]

\* transfer: OutOfFund when the source holds less than the value; otherwise
\* withdraw from the source, then deposit to the target.
State_transfer(state, transfer) ==
    IF State_balance(state, transfer.source) < transfer.value
    THEN Changed(Err("OutOfFund"), state)
    ELSE LET withdrawn == [State_with_account(state, transfer.source)
                              EXCEPT !.balance[transfer.source] = @ - transfer.value] IN
         Changed(Ok(NoVal), [State_with_account(withdrawn, transfer.target)
                                EXCEPT !.balance[transfer.target] = @ + transfer.value])

\* One entry of the substate stack: the metadata and the world of a frame.
Substate(metadata, state) == [metadata |-> metadata, state |-> state]

\* The substate of the running frame, and the stack below it.
Current(substates) == substates[Len(substates)]
Below(substates) == SubSeq(substates, 1, Len(substates) - 1)

\* Replace the metadata / the world of the running frame.
WithMetadata(substates, metadata) ==
    [substates EXCEPT ![Len(substates)].metadata = metadata]
WithState(substates, state) == [substates EXCEPT ![Len(substates)].state = state]

Exited(ret, substates) == [ret |-> ret, substates |-> substates]

\* StackState::enter: a child substate on top, seeing its parent's world.
StackState_enter(substates, gas_limit, is_static) ==
    Append(substates,
           Substate(spit_child(Current(substates).metadata, gas_limit, is_static),
                    Current(substates).state))

\* StackState::exit_commit: the parent swallows the child's metadata and
\* takes the child's world; when the swallow fails the world is not merged.
\* The trait lets an implementation report an error of its own:
\* commit_error is the error the backend has for the commit of this
\* substate ("" for none), reported with the substate dropped.
StackState_exit_commit(substates) ==
    LET child == Current(substates)
        parent == Current(Below(substates))
        sw == swallow_commit(parent.metadata, child.metadata)
    IN  IF child.state.commit_error # ""
        THEN Exited(Err(child.state.commit_error), Below(substates))
        ELSE Exited(sw.ret,
                    WithState(WithMetadata(Below(substates), sw.metadata),
                              IF sw.ret.kind = "Ok" THEN child.state ELSE parent.state))

\* StackState::exit_revert: the child's world is dropped.
StackState_exit_revert(substates) ==
    LET sw == swallow_revert(Current(Below(substates)).metadata, Current(substates).metadata)
    IN  Exited(sw.ret, WithMetadata(Below(substates), sw.metadata))

\* A discard that forgets the child's metadata but keeps its world.
StackState_exit_discard_keeping_world(substates) ==
    LET sw == swallow_discard(Current(Below(substates)).metadata, Current(substates).metadata)
    IN  Exited(sw.ret, WithState(WithMetadata(Below(substates), sw.metadata),
                                 Current(substates).state))

\* StackState::exit_discard: the child's world is dropped.
StackState_exit_discard(substates) ==
    LET sw == swallow_discard(Current(Below(substates)).metadata, Current(substates).metadata)
    IN  Exited(sw.ret, WithMetadata(Below(substates), sw.metadata))

-----------------------------------------------------------------------------
(* StackExecutor (src/executor/stack/executor.rs).                         *)

\* An exit that commits whatever the kind.
exit_substate_always_commit(substates, kind) == StackState_exit_commit(substates)

\* exit_substate(kind)
exit_substate(substates, kind) ==
    CASE kind = "Succeeded" -> StackState_exit_commit(substates)
      [] kind = "Reverted" -> StackState_exit_revert(substates)
      [] kind = "Failed" -> StackState_exit_discard(substates)

Min(a, b) == IF a < b THEN a ELSE b

\* A used_gas that applies the whole refund counter.
used_gas_uncapped(metadata, config) ==
    Gasometer_total_used_gas(metadata.gasometer) - Gasometer_refunded_gas(metadata.gasometer)

\* used_gas(): the gas used less the refund, capped at used / max_refund_quotient.
\* The refund counter is an i64 cast to u64 for the minimum: a negative
\* counter becomes a number above every quotient, and the cap is what is
\* taken off.
used_gas(metadata, config) ==
    LET cap == Gasometer_total_used_gas(metadata.gasometer) \div config.max_refund_quotient
        refunded == Gasometer_refunded_gas(metadata.gasometer)
    IN  Gasometer_total_used_gas(metadata.gasometer)
            - (IF refunded < 0 THEN cap ELSE Min(cap, refunded))

\* An l64 that keeps nothing back.
l64_all(gas) == gas

\* l64: all but one 64th.
l64(gas) == gas - gas \div 64

-----------------------------------------------------------------------------
(* Opcode costs (gasometer/src/lib.rs). An instruction of a frame is the   *)
(* opcode with the operands the cost and the semantics read: `value` (the  *)
(* value sent, or the word stored), `to` (the address operand) and `gas`   *)
(* (the gas requested).                                                    *)

LOG0 == 160
CREATE == 240
CREATE2 == 245
STATICCALL == 250
SELFDESTRUCT == 255

Instruction(opcode, value, to, gas) ==
    [opcode |-> opcode, value |-> value, to |-> to, gas |-> gas]

\* The refund for clearing a storage slot.
SstoreClearRefund == 3

\* static_opcode_cost: Some(cost) for the opcodes of fixed cost, None (NoVal)
\* for the others.
static_opcode_cost(opcode) == IF opcode \in {JUMPDEST, POP} THEN 1 ELSE NoVal

DynamicCost(ret, gas_cost, refund, target) ==
    [ret |-> ret, gas_cost |-> gas_cost, refund |-> refund, target |-> target]

\* StorageTarget
TargetNone == [kind |-> "None", address |-> ""]
TargetAddress(address) == [kind |-> "Address", address |-> address]
TargetSlot(address) == [kind |-> "Slot", address |-> address]

\* StackState::is_cold and is_storage_cold: cold until some substate of the
\* stack has the address, or the slot, in its accessed set.
State_is_cold(substates, address) ==
    \A i \in 1..Len(substates) :
        address \notin substates[i].metadata.accessed.accessed_addresses
State_is_storage_cold(substates, address, key) ==
    \A i \in 1..Len(substates) :
        <<address, key>> \notin substates[i].metadata.accessed.accessed_storage

\* Handler::is_cold: a precompile is never cold. key is NoKey for None.
NoKey == ""
is_cold(substates, address, key) ==
    IF key = NoKey
    THEN address \notin {"precompile"} /\ State_is_cold(substates, address)
    ELSE State_is_storage_cold(substates, address, key)

\* What an access costs more when its target is cold.
cold_cost(target_is_cold) == IF target_is_cold THEN 2 ELSE 0

\* The cost of GasCost::Call: a call that sends value costs the stipend and
\* more, a cold target costs more.
call_cost(value, target_is_cold) ==
    1 + (IF value # 0 THEN CallStipend + 1 ELSE 0) + cold_cost(target_is_cold)

\* dynamic_opcode_cost: the cost, the refund and the storage target of an
\* opcode, asked of the handler's world and access sets; the state-changing
\* opcodes are refused with ModifierDisabled when the frame is static.
dynamic_opcode_cost(address, ins, is_static, substates) ==
    CASE ins.opcode = SSTORE /\ ~is_static ->
             DynamicCost(Ok(NoVal), 1 + cold_cost(is_cold(substates, address, Slot)),
                         IF Current(substates).state.storage[address] # 0 /\ ins.value = 0
                         THEN SstoreClearRefund ELSE 0,
                         TargetSlot(address))
      [] ins.opcode \in LOG0..(LOG0 + 4) /\ ~is_static ->
             DynamicCost(Ok(NoVal), 1, 0, TargetNone)
      [] ins.opcode \in {CREATE, CREATE2} /\ ~is_static ->
             DynamicCost(Ok(NoVal), 1, 0, TargetNone)
      [] ins.opcode = SELFDESTRUCT /\ ~is_static ->
             DynamicCost(Ok(NoVal), 1 + cold_cost(is_cold(substates, ins.to, NoKey)), 0,
                         TargetAddress(ins.to))
      [] ins.opcode = CALL /\ (~is_static \/ ins.value = 0) ->
             DynamicCost(Ok(NoVal), call_cost(ins.value, is_cold(substates, ins.to, NoKey)),
                         0, TargetAddress(ins.to))
      [] ins.opcode \in {STATICCALL, BALANCE} ->
             DynamicCost(Ok(NoVal), 1 + cold_cost(is_cold(substates, ins.to, NoKey)), 0,
                         TargetAddress(ins.to))
      [] OTHER -> DynamicCost(Err("ModifierDisabled"), 0, 0, TargetNone)

\* record_dynamic_cost(gas_cost, None): the cost and the refund.
Gasometer_record_dynamic_cost(g, gas_cost, refund) ==
    LET r == Gasometer_record_cost(g, gas_cost) IN
    IF r.ret.kind # "Ok" THEN r
    ELSE Recorded(Ok(NoVal), [r.gasometer EXCEPT !.refunded_gas = @ + refund])

\* The gas of a memory of `len` bytes: one for each word of 32 bytes.
memory_gas(len) == (len + 31) \div 32

\* record_dynamic_cost(gas_cost, Some(MemoryCost { offset: 0, len })): the
\* memory's gas becomes the larger of what it was and what `len` bytes
\* need; OutOfGas, and failed, when the limit does not cover it all.
Gasometer_record_dynamic_memory_cost(g, gas_cost, len) ==
    LET memory == IF memory_gas(len) > g.memory_gas THEN memory_gas(len) ELSE g.memory_gas IN
    IF g.failed \/ g.gas_limit < memory + g.used_gas + gas_cost
    THEN Recorded(Err("OutOfGas"), Gasometer_fail(g))
    ELSE Recorded(Ok(NoVal), [g EXCEPT !.used_gas = @ + gas_cost, !.memory_gas = memory])

Validated(ret, substates) == [ret |-> ret, substates |-> substates]

\* A pre_validate that never tells the cost function the frame is static.
pre_validate_never_static(substates, address, ins) ==
    LET metadata == Current(substates).metadata IN
    IF static_opcode_cost(ins.opcode) # NoVal
    THEN LET r == Gasometer_record_cost(metadata.gasometer, static_opcode_cost(ins.opcode))
         IN  Validated(r.ret, WithMetadata(substates, [metadata EXCEPT !.gasometer = r.gasometer]))
    ELSE LET cost == dynamic_opcode_cost(address, ins, FALSE, substates) IN
         IF cost.ret.kind # "Ok" THEN Validated(cost.ret, substates)
         ELSE LET r == Gasometer_record_dynamic_cost(metadata.gasometer, cost.gas_cost,
                                                     cost.refund)
                  charged == [metadata EXCEPT !.gasometer = r.gasometer]
              IN  IF r.ret.kind # "Ok" THEN Validated(r.ret, WithMetadata(substates, charged))
                  ELSE Validated(Ok(NoVal),
                           WithMetadata(substates,
                               CASE cost.target.kind = "Address" ->
                                        access_address(charged, cost.target.address)
                                 [] cost.target.kind = "Slot" ->
                                        access_storage(charged, cost.target.address, Slot)
                                 [] OTHER -> charged))

\* A pre_validate that marks the target warm before it asks for the cost.
pre_validate_marking_first(substates, address, ins) ==
    LET metadata == Current(substates).metadata IN
    IF static_opcode_cost(ins.opcode) # NoVal
    THEN LET r == Gasometer_record_cost(metadata.gasometer, static_opcode_cost(ins.opcode))
         IN  Validated(r.ret, WithMetadata(substates, [metadata EXCEPT !.gasometer = r.gasometer]))
    ELSE LET is_static == metadata.is_static
             target == dynamic_opcode_cost(address, ins, is_static, substates).target
             marked == CASE target.kind = "Address" -> access_address(metadata, target.address)
                         [] target.kind = "Slot" -> access_storage(metadata, target.address, Slot)
                         [] OTHER -> metadata
             cost == dynamic_opcode_cost(address, ins, is_static,
                                         WithMetadata(substates, marked)) IN
         IF cost.ret.kind # "Ok" THEN Validated(cost.ret, substates)
         ELSE LET r == Gasometer_record_dynamic_cost(metadata.gasometer, cost.gas_cost,
                                                     cost.refund)
              IN  Validated(r.ret,
                            WithMetadata(substates, [marked EXCEPT !.gasometer = r.gasometer]))

\* Handler::pre_validate: charge the static cost, or ask dynamic_opcode_cost
\* with the frame's is_static, record what it returns and mark its target warm.
pre_validate(substates, address, ins) ==
    LET metadata == Current(substates).metadata IN
    IF static_opcode_cost(ins.opcode) # NoVal
    THEN LET r == Gasometer_record_cost(metadata.gasometer, static_opcode_cost(ins.opcode))
         IN  Validated(r.ret, WithMetadata(substates, [metadata EXCEPT !.gasometer = r.gasometer]))
    ELSE LET is_static == metadata.is_static
             cost == dynamic_opcode_cost(address, ins, is_static, substates) IN
         IF cost.ret.kind # "Ok" THEN Validated(cost.ret, substates)
         ELSE LET r == Gasometer_record_dynamic_cost(metadata.gasometer, cost.gas_cost,
                                                     cost.refund)
                  charged == [metadata EXCEPT !.gasometer = r.gasometer]
              IN  IF r.ret.kind # "Ok" THEN Validated(r.ret, WithMetadata(substates, charged))
                  ELSE Validated(Ok(NoVal),
                           WithMetadata(substates,
                               CASE cost.target.kind = "Address" ->
                                        access_address(charged, cost.target.address)
                                 [] cost.target.kind = "Slot" ->
                                        access_storage(charged, cost.target.address, Slot)
                                 [] OTHER -> charged))

-----------------------------------------------------------------------------
(* call_inner and create_inner. Each runs a frame in the middle; the model *)
(* has the part before the frame runs (`_enter`) and the part after it     *)
(* (`_exit`). `_enter` either leaves a child substate to run                *)
(* (outcome "run"), or returns at once (outcome "exit") with a reason; an  *)
(* operation that does not return gives outcome "abort".                   *)

\* What a precompile function returns: Ok((PrecompileOutput, cost)) or one
\* of the three PrecompileFailure variants; NoResult where none was called.
PrecompileResult(kind, exit_status, output, cost) ==
    [kind |-> kind, exit_status |-> exit_status, output |-> output, cost |-> cost]
NoResult == PrecompileResult("None", "", <<>>, 0)

\* address and output are the Option<H160> and the buffer of the returned
\* tuple: None and ManagedBuffer::new() unless Returning says otherwise.
\* ended is the reason the frame's run gave, when a frame has run.
NoAddress == ""

Inner(outcome, reason, substates, gas_limit) ==
    [outcome |-> outcome, reason |-> reason, substates |-> substates,
     gas_limit |-> gas_limit, address |-> NoAddress, output |-> <<>>,
     ended |-> NoReason, precompile |-> NoResult]

Returning(inner, address, output) ==
    IF inner.outcome = "exit"
    THEN [inner EXCEPT !.address = address, !.output = output]
    ELSE inner

WithGasometer(substates, g) == [substates EXCEPT ![Len(substates)].metadata.gasometer = g]

\* `let _ = self.exit_substate(kind); return Capture::Exit(reason)`
ExitWith(exited, reason) ==
    IF exited.ret.kind = "Abort"
    THEN Inner("abort", ExitFatal(exited.ret.err), exited.substates, NoVal)
    ELSE Inner("exit", reason, exited.substates, NoVal)

\* The same, for a substate that was entered with `gas_limit` and left
\* before its frame ran.
ExitEntered(exited, reason, gas_limit) ==
    [ExitWith(exited, reason) EXCEPT !.gas_limit = gas_limit]

\* The gas left for the child: after_gas in both functions. In estimate mode
\* the 64th held back is charged to the caller first.
AfterGas(g, config, take_l64) ==
    IF take_l64 /\ config.call_l64_after_gas
    THEN IF config.estimate
         THEN LET initial_after_gas == Gasometer_gas(g)
                  diff == initial_after_gas - l64(initial_after_gas)
                  r == Gasometer_record_cost(g, diff)
              IN  [ret |-> r.ret, gasometer |-> r.gasometer, after_gas |-> Gasometer_gas(r.gasometer)]
         ELSE [ret |-> Ok(NoVal), gasometer |-> g, after_gas |-> l64(Gasometer_gas(g))]
    ELSE [ret |-> Ok(NoVal), gasometer |-> g, after_gas |-> Gasometer_gas(g)]

\* The stipend of call_inner: gas_limit.saturating_add(call_stipend) for a
\* transfer of non-zero value when take_stipend is set. The model's gas is
\* far below u64::MAX, where the addition saturates.
add_stipend(config, transfer, take_stipend, gas_limit) ==
    IF transfer # NoTransfer /\ take_stipend /\ transfer.value # 0
    THEN gas_limit + config.call_stipend
    ELSE gas_limit

\* Context: the address the frame runs as, its caller and the value it sees.
Context(address, caller, apparent_value) ==
    [address |-> address, caller |-> caller, apparent_value |-> apparent_value]

\* call_inner up to the start of the frame: the gas for the child, the
\* substate entered and context.address touched in it, the depth check and
\* the transfer. target_gas is NoVal for None, transfer is NoTransfer for
\* None.
call_inner_enter(substates, config, transfer, target_gas, is_static, take_l64, take_stipend, context) ==
    LET a == AfterGas(Current(substates).metadata.gasometer, config, take_l64) IN
    IF a.ret.kind # "Ok"
    THEN Inner("exit", ExitError(a.ret.err), WithGasometer(substates, a.gasometer), NoVal)
    ELSE
    LET target == IF target_gas = NoVal THEN a.after_gas ELSE target_gas
        gas_limit == Min(target, a.after_gas)
        rec == Gasometer_record_cost(a.gasometer, gas_limit)
    IN
    IF rec.ret.kind # "Ok"
    THEN Inner("exit", ExitError(rec.ret.err), WithGasometer(substates, rec.gasometer), NoVal)
    ELSE
    LET with_stipend == add_stipend(config, transfer, take_stipend, gas_limit)
        child == StackState_enter(WithGasometer(substates, rec.gasometer),
                                  with_stipend, is_static)
        entered == WithState(child, State_touch(Current(child).state, context.address))
    IN
    IF Current(entered).metadata.depth # NoVal
         /\ Current(entered).metadata.depth > config.call_stack_limit
    THEN ExitEntered(exit_substate(entered, "Reverted"), ExitError("CallTooDeep"),
                     with_stipend)
    ELSE IF transfer # NoTransfer
    THEN LET tr == State_transfer(Current(entered).state, transfer) IN
         IF tr.ret.kind # "Ok"
         THEN ExitEntered(exit_substate(entered, "Reverted"), ExitError(tr.ret.err),
                          with_stipend)
         ELSE Inner("run", NoReason, WithState(entered, tr.state), with_stipend)
    ELSE Inner("run", NoReason, entered, with_stipend)

\* A call_inner that returns no bytes for any reason.
call_inner_exit_without_output(substates, reason, return_value) ==
    CASE reason.kind = "Succeed" -> ExitWith(exit_substate(substates, "Succeeded"), reason)
      [] reason.kind = "Revert" -> ExitWith(exit_substate(substates, "Reverted"), reason)
      [] OTHER ->
             ExitWith(exit_substate(
                          WithGasometer(substates,
                              Gasometer_fail(Current(substates).metadata.gasometer)),
                          "Failed"),
                      reason)

\* call_inner from the return of the frame: the substate exits by the reason;
\* return_value is runtime.machine().return_value().
call_inner_exit(substates, reason, return_value) ==
    CASE reason.kind = "Succeed" ->
             Returning(ExitWith(exit_substate(substates, "Succeeded"), reason),
                       NoAddress, return_value)
      [] reason.kind = "Error" -> ExitWith(exit_substate(substates, "Failed"), reason)
      [] reason.kind = "Revert" ->
             Returning(ExitWith(exit_substate(substates, "Reverted"), reason),
                       NoAddress, return_value)
      [] reason.kind = "Fatal" ->
             ExitWith(exit_substate(
                          WithGasometer(substates,
                              Gasometer_fail(Current(substates).metadata.gasometer)),
                          "Failed"),
                      reason)

\* The addresses in the precompile set.
Precompiles == {"precompile"}

\* PrecompileSet::execute for the map of precompile functions, given what the
\* function of the address returned: the cost of an Ok is recorded on the
\* substate's gasometer, and a cost that cannot be paid makes it an Error.
PrecompileSet_execute(substates, result) ==
    IF result.kind = "Ok"
    THEN LET rec == Gasometer_record_cost(Current(substates).metadata.gasometer, result.cost)
         IN  IF rec.ret.kind = "Ok"
             THEN [result |-> result, substates |-> WithGasometer(substates, rec.gasometer)]
             ELSE [result |-> PrecompileResult("Error", rec.ret.err, <<>>, 0),
                   substates |-> WithGasometer(substates, rec.gasometer)]
    ELSE [result |-> result, substates |-> substates]

\* A call_inner that commits the substate whatever the precompile returned.
call_inner_precompile_commits(entered, returned) ==
    LET e == PrecompileSet_execute(entered, returned)
        reason == CASE e.result.kind = "Ok" -> ExitSucceed(e.result.exit_status)
                    [] e.result.kind = "Error" -> ExitError(e.result.exit_status)
                    [] e.result.kind = "Revert" -> ExitRevert(e.result.exit_status)
                    [] OTHER -> ExitFatal(e.result.exit_status)
    IN  Returning(ExitWith(exit_substate(e.substates, "Succeeded"), reason),
                  NoAddress, e.result.output)

\* call_inner for a target in the precompile set, from the entered substate
\* on: the substate exits by the precompile's result.
call_inner_precompile(entered, returned) ==
    LET e == PrecompileSet_execute(entered, returned)
        result == e.result
    IN  CASE result.kind = "Ok" ->
                 Returning(ExitWith(exit_substate(e.substates, "Succeeded"),
                                    ExitSucceed(result.exit_status)),
                           NoAddress, result.output)
          [] result.kind = "Error" ->
                 ExitWith(exit_substate(e.substates, "Failed"), ExitError(result.exit_status))
          [] result.kind = "Revert" ->
                 Returning(ExitWith(exit_substate(e.substates, "Reverted"),
                                    ExitRevert(result.exit_status)),
                           NoAddress, result.output)
          [] result.kind = "Fatal" ->
                 ExitWith(exit_substate(
                              WithGasometer(e.substates,
                                  Gasometer_fail(Current(e.substates).metadata.gasometer)),
                              "Failed"),
                          ExitFatal(result.exit_status))

\* call_inner up to the start of the frame, or to its return when the
\* target is a precompile: `returned` is what the precompile function gives,
\* NoResult while the precompile set is still running it with the handle.
call_inner(substates, config, code_address, transfer, target_gas, is_static, take_l64, take_stipend, context, returned) ==
    LET entered == call_inner_enter(substates, config, transfer, target_gas, is_static,
                                    take_l64, take_stipend, context)
    IN  IF entered.outcome = "run" /\ code_address \in Precompiles /\ returned # NoResult
        THEN [call_inner_precompile(entered.substates, returned) EXCEPT
                 !.gas_limit = entered.gas_limit, !.precompile = returned]
        ELSE entered

\* Fail the frame: all its gas is consumed and its substate discarded.
FailFrame(substates, reason) ==
    ExitWith(exit_substate(
                 WithGasometer(substates, Gasometer_fail(Current(substates).metadata.gasometer)),
                 "Failed"),
             reason)

\* A return that leaves the substate entered when the precompile gave an Error.
precompile_return_leaving_substate(substates, result) ==
    IF result.kind = "Error"
    THEN Inner("exit", ExitError(result.exit_status), substates, NoVal)
    ELSE call_inner_precompile(substates, result)

\* The match of call_inner on what the precompile set's execute returned,
\* for a set whose execute leaves the gasometer to the handle's callers.
precompile_return(substates, result) ==
    CASE result.kind = "Ok" ->
             Returning(ExitWith(exit_substate(substates, "Succeeded"),
                                ExitSucceed(result.exit_status)),
                       NoAddress, result.output)
      [] result.kind = "Error" ->
             ExitWith(exit_substate(substates, "Failed"), ExitError(result.exit_status))
      [] result.kind = "Revert" ->
             Returning(ExitWith(exit_substate(substates, "Reverted"),
                                ExitRevert(result.exit_status)),
                       NoAddress, result.output)
      [] result.kind = "Fatal" ->
             FailFrame(substates, ExitFatal(result.exit_status))

\* What a function that calls call_inner / create_inner gives: that part,
\* and the substate when it was called.
Transacted(inner, before) == [inner |-> inner, before |-> before]

\* A handle whose subcall is not charged before it starts.
StackExecutorHandle_call_uncharged(substates, config, code_address, transfer, input_len, gas_limit, is_static, context) ==
    Transacted(call_inner(substates, config, code_address, transfer, gas_limit, is_static,
                          TRUE, TRUE, context, NoResult),
               Current(substates))

\* StackExecutorHandle::call up to the start of the subcall's frame: the
\* Call cost and the memory cost of the input are recorded on the current
\* gasometer, then Handler::call. gas_limit is NoVal for None.
StackExecutorHandle_call(substates, config, code_address, transfer, input_len, gas_limit, is_static, context) ==
    LET gas_cost == call_cost(IF transfer = NoTransfer THEN 0 ELSE transfer.value,
                              is_cold(substates, code_address, NoKey))
        rec == Gasometer_record_dynamic_memory_cost(Current(substates).metadata.gasometer,
                                                    gas_cost, input_len)
        charged == WithGasometer(substates, rec.gasometer)
    IN  IF rec.ret.kind # "Ok"
        THEN Transacted(Inner("exit", ExitError(rec.ret.err), charged, NoVal),
                        Current(substates))
        ELSE Transacted(call_inner(charged, config, code_address, transfer, gas_limit,
                                   is_static, TRUE, TRUE, context, NoResult),
                        Current(charged))

\* CreateScheme
Legacy(caller) == [kind |-> "Legacy", caller |-> caller]
Create2(caller, code_hash, salt) ==
    [kind |-> "Create2", caller |-> caller, code_hash |-> code_hash, salt |-> salt]
Fixed(address) == [kind |-> "Fixed", address |-> address]

\* U256::bits: the length of the value in bits, 0 for 0.
RECURSIVE U256_bits(_)
U256_bits(n) == IF n = 0 THEN 0 ELSE 1 + U256_bits(n \div 2)

\* U256::byte(index): the byte of that index, the lowest being byte 0.
RECURSIVE U256_byte(_, _)
U256_byte(n, index) == IF index = 0 THEN n % 256 ELSE U256_byte(n \div 256, index - 1)

\* The loop over the nonce's bytes: byte i for i in 0..nonce_len, a zero byte
\* pushed as 128.
RECURSIVE nonce_bytes(_, _, _)
nonce_bytes(nonce, i, nonce_len) ==
    IF i >= nonce_len THEN <<>>
    ELSE <<IF U256_byte(nonce, i) = 0 THEN 128 ELSE U256_byte(nonce, i)>>
           \o nonce_bytes(nonce, i + 1, nonce_len)

\* The bytes the Legacy arm pushes after the creator's: the nonce itself
\* below 128, else 128 + nonce_len and the loop's bytes. nonce_len is u8.
legacy_nonce_data(nonce) ==
    LET nonce_len == ((U256_bits(nonce) % 256) \div 8 + 1) % 256
    IN  IF nonce < 128 THEN <<U256_byte(nonce, 0)>>
        ELSE <<(128 + nonce_len) % 256>> \o nonce_bytes(nonce, 0, nonce_len)

\* The Legacy arm up to the hash: `data`. nonce_len and len are u8.
create_address_legacy_data(caller, nonce) ==
    LET nonce_len == ((U256_bits(nonce) % 256) \div 8 + 1) % 256
        len == IF nonce >= 128 THEN (22 + nonce_len + 1) % 256 ELSE (22 + nonce_len) % 256
    IN  <<(192 + len - 1) % 256, 148>> \o caller \o legacy_nonce_data(nonce)

\* The bytes written one after the other, each after a dot.
RECURSIVE Dotted(_)
Dotted(bytes) ==
    IF bytes = <<>> THEN "" ELSE "." \o ToString(Head(bytes)) \o Dotted(Tail(bytes))

\* create_address: the address of the contract a create makes. The hash is
\* modelled by a name that is the same exactly when the hashed data are:
\* the creator, the code hash and the salt for Create2; for Legacy the
\* creator and the bytes pushed for the nonce it has in the world (the
\* first byte of the data follows from their number), so that two nonces
\* that differ only in a byte 0 / 128 give one address, as they hash alike.
create_address(state, scheme) ==
    CASE scheme.kind = "Create2" ->
             scheme.caller \o ".c2." \o ToString(scheme.code_hash)
                 \o "." \o ToString(scheme.salt)
      [] scheme.kind = "Legacy" ->
             scheme.caller \o Dotted(legacy_nonce_data(State_nonce(state, scheme.caller)))
      [] scheme.kind = "Fixed" -> scheme.address

\* The scheme of the CREATE2s run: one init code and the salt 0.
Create2Run(caller) == Create2(caller, 0, 0)

\* create_inner from after_gas to the start of the init code's frame: the
\* gas is forwarded, the caller's nonce incremented, the substate entered,
\* the address checked for a collision, the value transferred.
create_inner_forward(warmed, config, caller, address, value, target_gas, take_l64) ==
    LET a == AfterGas(Current(warmed).metadata.gasometer, config, take_l64) IN
    IF a.ret.kind # "Ok"
    THEN Inner("exit", ExitError(a.ret.err), WithGasometer(warmed, a.gasometer), NoVal)
    ELSE
    LET target == IF target_gas = NoVal THEN a.after_gas ELSE target_gas
        gas_limit == Min(a.after_gas, target)
        rec == Gasometer_record_cost(a.gasometer, gas_limit)
    IN
    IF rec.ret.kind # "Ok"
    THEN Inner("exit", ExitError(rec.ret.err), WithGasometer(warmed, rec.gasometer), NoVal)
    ELSE
    LET charged == WithGasometer(warmed, rec.gasometer)
        entered == StackState_enter(
                       WithState(charged, State_inc_nonce(Current(charged).state, caller)),
                       gas_limit, FALSE)
        state == Current(entered).state
    IN
    IF Len(State_code(state, address)) # 0 \/ State_nonce(state, address) > 0
    THEN ExitEntered(exit_substate(entered, "Failed"), ExitError("CreateCollision"),
                     gas_limit)
    ELSE
    LET tr == State_transfer(State_reset_storage(state, address),
                             Transfer(caller, address, value)) IN
    IF tr.ret.kind # "Ok"
    THEN ExitEntered(exit_substate(entered, "Reverted"), ExitError(tr.ret.err), gas_limit)
    ELSE Inner("run", NoReason,
               WithState(entered,
                         IF config.create_increase_nonce
                         THEN State_inc_nonce(tr.state, address) ELSE tr.state),
               gas_limit)

\* A create_inner that does not look at the caller's balance first.
create_inner_enter_without_balance_check(substates, config, caller, scheme, value, target_gas, take_l64) ==
    LET address == create_address(Current(substates).state, scheme)
        warmed == WithMetadata(substates,
                      access_address(access_address(Current(substates).metadata, caller),
                                     address))
        depth == Current(warmed).metadata.depth
    IN
    IF depth # NoVal /\ depth > config.call_stack_limit
    THEN Inner("exit", ExitError("CallTooDeep"), warmed, NoVal)
    ELSE create_inner_forward(warmed, config, caller, address, value, target_gas, take_l64)

\* create_inner up to the start of the init code's frame: the addresses made
\* warm, the depth and the caller's balance checked, then the rest.
create_inner_enter(substates, config, caller, scheme, value, target_gas, take_l64) ==
    LET address == create_address(Current(substates).state, scheme)
        warmed == WithMetadata(substates,
                      access_address(access_address(Current(substates).metadata, caller),
                                     address))
        depth == Current(warmed).metadata.depth
    IN
    IF depth # NoVal /\ depth > config.call_stack_limit
    THEN Inner("exit", ExitError("CallTooDeep"), warmed, NoVal)
    ELSE IF Current(warmed).state.balance[caller] < value
    THEN Inner("exit", ExitError("OutOfFund"), warmed, NoVal)
    ELSE create_inner_forward(warmed, config, caller, address, value, target_gas, take_l64)

\* check_first_byte: code.get(0) is read whenever the format check is on.
check_first_byte(config, code) ==
    IF config.disallow_executable_format
    THEN LET first == ManagedBuffer_get(code, 0) IN
         IF first.kind = "Abort" THEN first
         ELSE IF first.val = 239 THEN Err("InvalidCode") ELSE Ok(NoVal)
    ELSE Ok(NoVal)

\* create_inner from the return of the init code's frame; `out` is the
\* machine's return value, `address` the address being created.
create_inner_exit(substates, config, reason, out, address) ==
    CASE reason.kind = "Succeed" ->
             LET first == check_first_byte(config, out) IN
             IF first.kind = "Abort" THEN Inner("abort", ExitFatal(first.err), substates, NoVal)
             ELSE IF first.kind = "Err" THEN FailFrame(substates, ExitError(first.err))
             ELSE IF config.create_contract_limit # NoVal
                       /\ Len(out) > config.create_contract_limit
             THEN FailFrame(substates, ExitError("CreateContractLimit"))
             ELSE LET dep == Gasometer_record_deposit(Current(substates).metadata.gasometer,
                                                      Len(out)) IN
                  IF dep.ret.kind # "Ok"
                  THEN ExitWith(exit_substate(WithGasometer(substates, dep.gasometer), "Failed"),
                                ExitError(dep.ret.err))
                  ELSE LET e == exit_substate(WithGasometer(substates, dep.gasometer),
                                              "Succeeded")
                           coded == WithState(e.substates,
                                        State_set_code(Current(e.substates).state, address, out))
                       IN  IF e.ret.kind = "Abort"
                           THEN Inner("abort", ExitFatal(e.ret.err), e.substates, NoVal)
                           ELSE IF e.ret.kind = "Err"
                           THEN Inner("exit", ExitError(e.ret.err), coded, NoVal)
                           ELSE Returning(Inner("exit", reason, coded, NoVal),
                                          address, <<>>)
      [] reason.kind = "Error" -> FailFrame(substates, reason)
      [] reason.kind = "Revert" ->
             Returning(ExitWith(exit_substate(substates, "Reverted"), reason),
                       NoAddress, out)
      [] reason.kind = "Fatal" -> FailFrame(substates, reason)

-----------------------------------------------------------------------------
(* The executor driver: one transaction on a fresh StackExecutor. The      *)
(* transaction enters the top-level frame; the running frame executes any  *)
(* instructions, among them CALLs and CREATEs that enter child frames, and *)
(* ends with any exit reason, which returns to the frame below.            *)

\* The number of instructions a transaction executes at most.
MaxOps == 2
\* The gas limits of the transaction.
TxGasLimits == {0, 1, 3, 300}

\* The call-stack limits of the configurations run.
CallStackLimits == {CallStackLimit - 1, CallStackLimit}
\* The gas an opcode-level CALL requests.
GasRequests == {2, 1000}
\* The values a transaction, CALL or CREATE sends.
Values == 0..1
\* The values a transaction sends: the last is more than the caller has.
TxValues == 0..2
\* What the init code of a create may return.
Outs == {<<>>, <<0>>, <<239>>, <<0, 0>>}

State0 ==
    [storage |-> [a \in Addresses |-> IF a = "caller" THEN 0 ELSE 1],
     balance |-> [a \in Addresses |-> IF a = "caller.0" THEN 0 ELSE 1],
     code |-> [a \in Addresses |-> IF a = "contract" THEN <<0>> ELSE <<>>],
     nonce |-> [a \in Addresses |-> 0],
     logs |-> <<>>,
     deleted |-> {},
     commit_error |-> ""]

\* What the executor's recursion holds for one substate: which function
\* entered it, the frame's address, the is_static it asked for, the gas limit
\* it gave, whether the gas was forwarded by an opcode (take_l64), and the
\* caller's substate when the function was called.
Frame(kind, address, is_static, gas_limit, take_l64, before) ==
    [kind |-> kind, address |-> address, is_static |-> is_static,
     gas_limit |-> gas_limit, take_l64 |-> take_l64, before |-> before]

NoInstruction == Instruction(NoVal, 0, "", 0)

\* op: the operation; ins: the instruction executed; out: the return value
\* of the frame's machine and ended the reason its run gave; precompile:
\* what the precompile called returned; outcome / reason / address / output: what the
\* operation's call_inner or create_inner part gave; gas_limit: the gas
\* limit of the substate it entered (NoVal when it entered none); pre: the
\* executor before it.
ExecutorCall(op, ins, out, inner, pre) ==
    [op |-> op, ins |-> ins, out |-> out, outcome |-> inner.outcome,
     reason |-> inner.reason, gas_limit |-> inner.gas_limit,
     address |-> inner.address, output |-> inner.output, ended |-> inner.ended,
     precompile |-> inner.precompile, pre |-> pre]

\* The access lists of the transactions run.
AccessLists == {<<>>, << <<"caller.0", <<Slot>>>>, <<"contract", <<>>>> >>}

\* A fresh executor for a transaction with one of the gas limits and one of
\* the access lists, under one of the configurations.
InitExecutorOver(call_stack_limits, gas_limits, access_lists) ==
    /\ \E call_stack_limit \in call_stack_limits, l64_after_gas \in BOOLEAN,
          estimate \in BOOLEAN, gas_limit \in gas_limits, access_list \in access_lists :
       /\ estimate => l64_after_gas
       /\ LET config == Config(call_stack_limit, l64_after_gas, estimate)
              root == Substate(StackSubstateMetadata_new(gas_limit, config), State0)
          IN  executor =
              [config |-> config,
               gas_limit |-> gas_limit,
               access_list |-> access_list,
               substates |-> <<root>>,
               frames |-> <<Frame("root", "", FALSE, gas_limit, FALSE, root)>>,
               phase |-> "idle",
               ops |-> 0]
    /\ executor_call = ExecutorCall("new", NoInstruction, <<>>,
                                    Inner("none", NoReason, <<>>, NoVal), executor)
    /\ overflow_checks = TRUE
    /\ alive = TRUE
    /\ stack = Stack_new(0)
    /\ stack_call = StackCall("new", 0, 0, Ok(NoVal), stack)
    /\ stack_prev_call = stack_call
    /\ machine = NoMachine
    /\ machine_call = "none"
    /\ run_loop = "idle"

InitExecutor == InitExecutorOver(CallStackLimits, TxGasLimits, {<<>>})

\* Install what a call_inner / create_inner part gave: a child frame on
\* "run", the stack it left otherwise; the transaction is done when only the
\* executor's own substate remains.
Install(op, ins, out, inner, frame, counted) ==
    /\ executor' =
           [executor EXCEPT
               !.substates = inner.substates,
               !.frames = CASE inner.outcome = "run" -> Append(@, frame)
                            [] Len(inner.substates) < Len(@) -> Below(@)
                            [] OTHER -> @,
               !.phase = IF Len(inner.substates) = 1 THEN "done" ELSE "running",
               !.ops = @ + counted]
    /\ executor_call' = ExecutorCall(op, ins, out, inner, executor)
    /\ alive' = (inner.outcome # "abort")
    /\ UNCHANGED <<stackVars, machineVars, overflow_checks>>

\* gasometer::call_transaction_cost and gasometer::create_transaction_cost of
\* the transactions run: the intrinsic cost, in the model's gas scale, and
\* what the access list adds to it, one for each address and each key.
call_transaction_cost == 1
create_transaction_cost == 2
access_list_cost(access_list) ==
    Len(access_list) + Cardinality(AccessListSlots(access_list))

\* An initialisation that leaves the storage keys of the list out.
initialize_with_access_list_without_keys(metadata, access_list) ==
    IF metadata.accessed.some
    THEN [metadata EXCEPT
             !.accessed.accessed_addresses = @ \cup AccessListAddresses(access_list)]
    ELSE metadata

\* initialize_with_access_list: the addresses of the list, then its
\* (address, key) pairs, into the current access set.
initialize_with_access_list(metadata, access_list) ==
    IF metadata.accessed.some
    THEN [metadata EXCEPT
             !.accessed.accessed_addresses = @ \cup AccessListAddresses(access_list),
             !.accessed.accessed_storage = @ \cup AccessListSlots(access_list)]
    ELSE metadata

\* transact_call: the intrinsic cost, the caller and the target made warm,
\* the caller's nonce, then call_inner without l64 and without stipend.
transact_call(substates, config, caller, address, value, gas_limit, access_list) ==
    LET rt == Gasometer_record_transaction(Current(substates).metadata.gasometer,
                                           call_transaction_cost
                                             + access_list_cost(access_list)) IN
    IF rt.ret.kind # "Ok"
    THEN Transacted(Inner("exit", ExitError(rt.ret.err),
                          WithGasometer(substates, rt.gasometer), NoVal),
                    Current(substates))
    ELSE LET charged == WithGasometer(substates, rt.gasometer)
             seeded == IF config.increase_state_access_gas
                       THEN WithMetadata(charged,
                                initialize_with_access_list(
                                    access_address(access_address(Current(charged).metadata,
                                                                  caller),
                                                   address),
                                    access_list))
                       ELSE charged
             nonced == WithState(seeded, State_inc_nonce(Current(seeded).state, caller))
         IN  Transacted(call_inner(nonced, config, address, Transfer(caller, address, value),
                                   gas_limit, FALSE, FALSE, FALSE,
                                   Context(address, caller, value), NoResult),
                        Current(nonced))

\* transact_create: the intrinsic cost of a create, then
\* create_inner without l64.
transact_create(substates, config, caller, value, gas_limit, access_list) ==
    LET rt == Gasometer_record_transaction(Current(substates).metadata.gasometer,
                                           create_transaction_cost
                                             + access_list_cost(access_list)) IN
    IF rt.ret.kind # "Ok"
    THEN Transacted(Inner("exit", ExitError(rt.ret.err),
                          WithGasometer(substates, rt.gasometer), NoVal),
                    Current(substates))
    ELSE LET listed == WithMetadata(WithGasometer(substates, rt.gasometer),
                           initialize_with_access_list(
                               [Current(substates).metadata EXCEPT !.gasometer = rt.gasometer],
                               access_list))
         IN  Transacted(create_inner_enter(listed, config, caller, Legacy(caller), value,
                                           gas_limit, FALSE),
                        Current(listed))

\* transact_create2: as transact_create, with the Create2 scheme.
transact_create2(substates, config, caller, value, gas_limit, access_list) ==
    LET rt == Gasometer_record_transaction(Current(substates).metadata.gasometer,
                                           create_transaction_cost
                                             + access_list_cost(access_list)) IN
    IF rt.ret.kind # "Ok"
    THEN Transacted(Inner("exit", ExitError(rt.ret.err),
                          WithGasometer(substates, rt.gasometer), NoVal),
                    Current(substates))
    ELSE LET listed == WithMetadata(WithGasometer(substates, rt.gasometer),
                           initialize_with_access_list(
                               [Current(substates).metadata EXCEPT !.gasometer = rt.gasometer],
                               access_list))
         IN  Transacted(create_inner_enter(listed, config, caller,
                                           Create2Run(caller), value,
                                           gas_limit, FALSE),
                        Current(listed))

\* Handler::mark_delete: the whole balance to the target, then the balance
\* reset and the account marked deleted.
mark_delete(state, address, target) ==
    LET tr == State_transfer(state, Transfer(address, target, State_balance(state, address))) IN
    IF tr.ret.kind # "Ok" THEN tr
    ELSE Changed(Ok(NoVal), State_set_deleted(State_reset_balance(tr.state, address), address))

\* The frame has returned `reason`: the rest of the function that entered it.
FrameExit(substates, config, frame, reason, out) ==
    [(IF frame.kind = "create"
      THEN create_inner_exit(substates, config, reason, out, frame.address)
      ELSE call_inner_exit(substates, reason, out))
     EXCEPT !.ended = reason]

TransactCall ==
    /\ alive
    /\ executor.phase = "idle"
    /\ \E value \in TxValues :
       \E t \in {transact_call(executor.substates, executor.config, "caller", "contract",
                               value, executor.gas_limit, executor.access_list)} :
              Install("transact_call", Instruction(NoVal, value, "contract", executor.gas_limit),
                      <<>>, t.inner,
                      Frame("call", "contract", FALSE, t.inner.gas_limit, FALSE, t.before), 0)

TransactCreate ==
    /\ alive
    /\ executor.phase = "idle"
    /\ \E value \in TxValues :
       \E t \in {transact_create(executor.substates, executor.config, "caller", value,
                                 executor.gas_limit, executor.access_list)} :
       \E address \in {create_address(Current(executor.substates).state,
                                       Legacy("caller"))} :
              Install("transact_create",
                      Instruction(NoVal, value, address, executor.gas_limit),
                      <<>>, t.inner,
                      Frame("create", address, FALSE, t.inner.gas_limit, FALSE, t.before), 0)

TransactCreate2 ==
    /\ alive
    /\ executor.phase = "idle"
    /\ \E value \in TxValues :
       \E t \in {transact_create2(executor.substates, executor.config, "caller", value,
                                  executor.gas_limit, executor.access_list)} :
       \E address \in {create_address(Current(executor.substates).state,
                                       Create2Run("caller"))} :
              Install("transact_create2",
                      Instruction(NoVal, value, address, executor.gas_limit),
                      <<>>, t.inner,
                      Frame("create", address, FALSE, t.inner.gas_limit, FALSE, t.before), 0)

\* The running frame is a machine's, which executes opcodes, or a precompile's,
\* which the precompile set runs with a handle.
Interpreting ==
    executor.phase = "running" /\ Current(executor.frames).kind # "precompile"
Precompiling ==
    executor.phase = "running" /\ Current(executor.frames).kind = "precompile"

\* The opcodes a frame runs that neither call nor create.
PlainInstructions ==
    {Instruction(JUMPDEST, 0, "", 0), Instruction(LOG0, 0, "", 0),
     Instruction(SELFDESTRUCT, 0, "caller", 0)}
      \cup {Instruction(SSTORE, v, "", 0) : v \in Values}

CallInstructions ==
    {Instruction(CALL, v, "contract", g) : v \in Values, g \in GasRequests}
      \cup {Instruction(STATICCALL, 0, to, 1000) : to \in {"contract", "nobody", "precompile"}}
      \cup {Instruction(CALL, v, "precompile", 1000) : v \in Values}

\* What the precompile may return: an output at a cost, or a failure.
PrecompileCosts == {1, 1000}
PrecompileResults ==
    {PrecompileResult("Ok", "Returned", <<0>>, cost) : cost \in PrecompileCosts}
      \cup {PrecompileResult("Error", "Other", <<>>, 0),
            PrecompileResult("Revert", "Reverted", <<0>>, 0),
            PrecompileResult("Fatal", "NotSupported", <<>>, 0)}

CreateInstructions ==
    {Instruction(CREATE, 1, "", 0), Instruction(CREATE2, 0, "", 0)}

\* What the opcode does to the world once pre_validate has passed.
Handled(state, address, ins) ==
    CASE ins.opcode = SSTORE -> Changed(Ok(NoVal), State_set_storage(state, address, ins.value))
      [] ins.opcode = LOG0 -> Changed(Ok(NoVal), State_log(state, address))
      [] ins.opcode = SELFDESTRUCT -> mark_delete(state, address, ins.to)
      [] OTHER -> Changed(Ok(NoVal), state)

\* The running frame executes one opcode that neither calls nor creates:
\* pre_validate, then the handler; an Err ends the frame with that error, a
\* SELFDESTRUCT ends it with Suicided.
Opcode ==
    /\ alive
    /\ Interpreting
    /\ executor.ops < MaxOps
    /\ \E ins \in PlainInstructions, frame \in {Current(executor.frames)} :
       \E pv \in {pre_validate(executor.substates, frame.address, ins)} :
       \E h \in {Handled(Current(pv.substates).state, frame.address, ins)} :
       \E inner \in
            {CASE pv.ret.kind # "Ok" ->
                      FrameExit(pv.substates, executor.config, frame,
                                ExitError(pv.ret.err), <<>>)
               [] h.ret.kind # "Ok" ->
                      FrameExit(pv.substates, executor.config, frame,
                                ExitError(h.ret.err), <<>>)
               [] ins.opcode = SELFDESTRUCT ->
                      FrameExit(WithState(pv.substates, h.state), executor.config, frame,
                                ExitSucceed("Suicided"), <<>>)
               [] OTHER -> Inner("step", NoReason, WithState(pv.substates, h.state), NoVal)} :
          Install("opcode", ins, <<>>, inner, frame, 1)

\* The running frame executes CALL or STATICCALL: pre_validate, then
\* Handler::call, which is call_inner with l64 and the stipend.
OpCall ==
    /\ alive
    /\ Interpreting
    /\ executor.ops < MaxOps
    /\ \E ins \in CallInstructions, frame \in {Current(executor.frames)} :
       \E returned \in (IF ins.to \in Precompiles THEN PrecompileResults ELSE {NoResult}) :
       \E pv \in {pre_validate(executor.substates, frame.address, ins)} :
       \E inner \in
            {IF pv.ret.kind # "Ok"
             THEN FrameExit(pv.substates, executor.config, frame, ExitError(pv.ret.err), <<>>)
             ELSE call_inner(pv.substates, executor.config, ins.to,
                             IF ins.opcode = CALL
                             THEN Transfer(frame.address, ins.to, ins.value)
                             ELSE NoTransfer,
                             ins.gas, ins.opcode = STATICCALL, TRUE, TRUE,
                             Context(ins.to, frame.address, ins.value), returned)} :
              Install("call", ins, <<>>, inner,
                      Frame("call", ins.to, ins.opcode = STATICCALL, inner.gas_limit, TRUE,
                            Current(pv.substates)), 1)

\* The running frame executes CREATE or CREATE2: pre_validate, then
\* Handler::create, which is create_inner with l64 and no gas request.
OpCreate ==
    /\ alive
    /\ Interpreting
    /\ executor.ops < MaxOps
    /\ \E ins \in CreateInstructions, frame \in {Current(executor.frames)} :
       \E pv \in {pre_validate(executor.substates, frame.address, ins)} :
       \E scheme \in {IF ins.opcode = CREATE2
                      THEN Create2Run(frame.address)
                      ELSE Legacy(frame.address)} :
       \E inner \in
            {IF pv.ret.kind # "Ok"
             THEN FrameExit(pv.substates, executor.config, frame, ExitError(pv.ret.err), <<>>)
             ELSE create_inner_enter(pv.substates, executor.config, frame.address,
                                     scheme, ins.value, NoVal, TRUE)} :
              Install("create", ins, <<>>, inner,
                      Frame("create", create_address(Current(pv.substates).state, scheme),
                            FALSE, inner.gas_limit,
                            TRUE, Current(pv.substates)), 1)

\* The reasons a frame's run ends with.
EndReasons ==
    {ExitSucceed("Returned"), ExitSucceed("Stopped"), ExitRevert("Reverted"),
     ExitError("OutOfGas"), ExitFatal("NotSupported")}

\* The machine's return value when its run ends with `reason`: the range a
\* RETURN or REVERT named, nothing otherwise.
ReturnValues(frame, reason) ==
    CASE reason = ExitSucceed("Returned") -> IF frame.kind = "create" THEN Outs ELSE {<<0>>}
      [] reason.kind = "Revert" -> {<<0>>}
      [] OTHER -> {<<>>}

\* The running frame returns: the rest of call_inner or create_inner.
End ==
    /\ alive
    /\ Interpreting
    /\ \E reason \in EndReasons, frame \in {Current(executor.frames)} :
       \E out \in ReturnValues(frame, reason) :
       \E inner \in {FrameExit(executor.substates, executor.config, frame, reason, out)} :
          Install("end", NoInstruction, out, inner, frame, 0)

NextExecutor ==
    TransactCall \/ TransactCreate \/ TransactCreate2 \/ Opcode \/ OpCall \/ OpCreate \/ End

SpecExecutor == InitExecutor /\ [][NextExecutor]_vars

-----------------------------------------------------------------------------
(* The host driver: the executor over a host that uses the whole of its    *)
(* interface. The precompile set runs its precompile with the handle: the  *)
(* precompile makes subcalls, emits logs and records costs before it       *)
(* returns its result.                                                     *)

\* The calls of a precompile the running frame makes.
PrecompileInstructions ==
    {Instruction(CALL, 1, "precompile", 1000), Instruction(CALL, 0, "precompile", 2),
     Instruction(STATICCALL, 0, "precompile", 1000)}

\* The subcalls a precompile makes: the address called, the value of the
\* transfer (NoVal for None), the gas limit (NoVal for None), is_static and
\* the length of the input.
Subcall(to, value, gas, is_static, input_len) ==
    [opcode |-> NoVal, value |-> value, to |-> to, gas |-> gas, is_static |-> is_static,
     input_len |-> input_len]
Subcalls ==
    {Subcall("contract", 1, NoVal, FALSE, 33), Subcall("contract", NoVal, 2, TRUE, 0),
     Subcall("contract", 1, 2, TRUE, 0),
     Subcall("caller.0", 0, NoVal, FALSE, 1), Subcall("precompile", NoVal, NoVal, FALSE, 0)}

\* What a precompile that uses the handle returns.
HandleResults ==
    {PrecompileResult("Ok", "Returned", <<0>>, 0), PrecompileResult("Error", "Other", <<>>, 0),
     PrecompileResult("Revert", "Reverted", <<0>>, 0),
     PrecompileResult("Fatal", "NotSupported", <<>>, 0)}

\* A transaction that calls the precompile.
TransactCallPrecompile ==
    /\ alive
    /\ executor.phase = "idle"
    /\ \E value \in Values :
       \E t \in {transact_call(executor.substates, executor.config, "caller", "precompile",
                               value, executor.gas_limit, executor.access_list)} :
              Install("transact_call",
                      Instruction(NoVal, value, "precompile", executor.gas_limit),
                      <<>>, t.inner,
                      Frame("precompile", "precompile", FALSE, t.inner.gas_limit, FALSE,
                            t.before), 0)

\* The running frame executes CALL or STATICCALL of the precompile:
\* pre_validate, then call_inner up to precompile_set.execute, which runs
\* the precompile in the substate entered.
OpCallPrecompile ==
    /\ alive
    /\ Interpreting
    /\ executor.ops < MaxOps
    /\ \E ins \in PrecompileInstructions, frame \in {Current(executor.frames)} :
       \E pv \in {pre_validate(executor.substates, frame.address, ins)} :
       \E inner \in
            {IF pv.ret.kind # "Ok"
             THEN FrameExit(pv.substates, executor.config, frame, ExitError(pv.ret.err), <<>>)
             ELSE call_inner(pv.substates, executor.config, ins.to,
                             IF ins.opcode = CALL
                             THEN Transfer(frame.address, ins.to, ins.value)
                             ELSE NoTransfer,
                             ins.gas, ins.opcode = STATICCALL, TRUE, TRUE,
                             Context(ins.to, frame.address, ins.value), NoResult)} :
              Install("call_precompile", ins, <<>>, inner,
                      Frame("precompile", ins.to, ins.opcode = STATICCALL, inner.gas_limit, TRUE,
                            Current(pv.substates)), 1)

\* The precompile calls handle.call: StackExecutorHandle::call.
HandleCall ==
    /\ alive
    /\ Precompiling
    /\ executor.ops < MaxOps
    /\ \E sub \in Subcalls, frame \in {Current(executor.frames)} :
       \E t \in {StackExecutorHandle_call(executor.substates, executor.config, sub.to,
                                          IF sub.value = NoVal THEN NoTransfer
                                          ELSE Transfer(frame.address, sub.to, sub.value),
                                          sub.input_len, sub.gas, sub.is_static,
                                          Context(sub.to, frame.address,
                                                  IF sub.value = NoVal THEN 0
                                                  ELSE sub.value))} :
              Install("handle_call", sub, <<>>, t.inner,
                      Frame(IF sub.to \in Precompiles THEN "precompile" ELSE "call", sub.to,
                            sub.is_static, t.inner.gas_limit, TRUE, t.before), 1)

\* The precompile calls handle.log: Handler::log.
HandleLog ==
    /\ alive
    /\ Precompiling
    /\ executor.ops < MaxOps
    /\ \E frame \in {Current(executor.frames)} :
          Install("handle_log", NoInstruction, <<>>,
                  Inner("step", NoReason,
                        WithState(executor.substates,
                                  State_log(Current(executor.substates).state, frame.address)),
                        NoVal),
                  frame, 1)

\* The precompile calls handle.record_cost and goes on whatever it returns.
HandleRecordCost ==
    /\ alive
    /\ Precompiling
    /\ executor.ops < MaxOps
    /\ \E cost \in PrecompileCosts, frame \in {Current(executor.frames)} :
          Install("handle_record_cost", Instruction(NoVal, 0, "", cost), <<>>,
                  Inner("step", NoReason,
                        WithGasometer(executor.substates,
                            Gasometer_record_cost(
                                Current(executor.substates).metadata.gasometer,
                                cost).gasometer),
                        NoVal),
                  frame, 1)

\* The precompile returns: the rest of call_inner.
PrecompileReturn ==
    /\ alive
    /\ Precompiling
    /\ \E result \in HandleResults, frame \in {Current(executor.frames)} :
       \E inner \in {precompile_return(executor.substates, result)} :
          Install("precompile_return", NoInstruction, <<>>,
                  [inner EXCEPT !.precompile = result], frame, 0)

\* The running frame executes SELFDESTRUCT naming its own address as the
\* target: pre_validate, then Handler::mark_delete, then the frame ends.
OpSelfdestructSelf ==
    /\ alive
    /\ Interpreting
    /\ executor.ops < MaxOps
    /\ \E frame \in {Current(executor.frames)} :
       \E ins \in {Instruction(SELFDESTRUCT, 0, frame.address, 0)} :
       \E pv \in {pre_validate(executor.substates, frame.address, ins)} :
       \E h \in {mark_delete(Current(pv.substates).state, frame.address, ins.to)} :
       \E inner \in
            {CASE pv.ret.kind # "Ok" ->
                      FrameExit(pv.substates, executor.config, frame,
                                ExitError(pv.ret.err), <<>>)
               [] h.ret.kind # "Ok" ->
                      FrameExit(pv.substates, executor.config, frame,
                                ExitError(h.ret.err), <<>>)
               [] OTHER ->
                      FrameExit(WithState(pv.substates, h.state), executor.config, frame,
                                ExitSucceed("Suicided"), <<>>)} :
          Install("opcode", ins, <<>>, inner, frame, 1)

\* The running frame returns with success and the backend reports an error
\* when its substate is committed.
EndCommitError ==
    /\ alive
    /\ Interpreting
    /\ \E reason \in {ExitSucceed("Returned"), ExitSucceed("Stopped")},
          frame \in {Current(executor.frames)} :
       \E out \in ReturnValues(frame, reason) :
       \E inner \in {FrameExit(WithState(executor.substates,
                                         [Current(executor.substates).state
                                              EXCEPT !.commit_error = "Other"]),
                               executor.config, frame, reason, out)} :
          Install("end_commit_error", NoInstruction, out, inner, frame, 0)

InitHost ==
    /\ InitExecutorOver({CallStackLimit}, {300}, AccessLists)
    /\ executor.config.call_l64_after_gas
    /\ ~executor.config.estimate

NextHost ==
    \/ TransactCall \/ TransactCreate \/ Opcode \/ OpCall \/ OpCreate \/ End
    \/ OpSelfdestructSelf \/ EndCommitError \/ TransactCallPrecompile \/ OpCallPrecompile \/ HandleCall \/ HandleLog \/ HandleRecordCost \/ PrecompileReturn

SpecHost == InitHost /\ [][NextHost]_vars

-----------------------------------------------------------------------------
(* The address driver: the bytes create_address hands to keccak256 for a    *)
(* creator and its nonce under the Legacy scheme. Bytes are numbers in      *)
(* 0..255, the creator's address is its 20 bytes.                          *)

\* The creators and nonces create_address is applied to.
MaxNonce == 300
Senders ==
    {<<106, 199, 234, 51, 248, 131, 30, 169, 220, 197,
       51, 147, 170, 168, 139, 37, 167, 133, 219, 240>>,
     [i \in 1..20 |-> 0]}
Nonces == (0..MaxNonce) \cup {32768, 65535, 65536, 65793, 16777216}

InitAddress ==
    /\ \E caller \in Senders, nonce \in Nonces :
          executor = [caller |-> caller, nonce |-> nonce]
    /\ executor_call = [op |-> "new", data |-> <<>>]
    /\ overflow_checks = TRUE
    /\ alive = TRUE
    /\ stack = Stack_new(0)
    /\ stack_call = StackCall("new", 0, 0, Ok(NoVal), stack)
    /\ stack_prev_call = stack_call
    /\ machine = NoMachine
    /\ machine_call = "none"
    /\ run_loop = "idle"

\* create_address(CreateScheme::Legacy { caller })
CreateAddress ==
    /\ executor_call.op = "new"
    /\ executor_call' =
           [op |-> "create_address",
            data |-> create_address_legacy_data(executor.caller, executor.nonce)]
    /\ UNCHANGED <<stackVars, machineVars, executor, overflow_checks, alive>>

NextAddress == CreateAddress

SpecAddress == InitAddress /\ [][NextAddress]_vars

-----------------------------------------------------------------------------
(* The resize driver: a ManagedBuffer or a ManagedVec that is filled by    *)
(* push and resized to any size with any value.                            *)

\* The largest size asked for, and the bytes and items pushed and filled in.
MaxSize == 3
Fillers == 0..1

\* kind: "ManagedBuffer" or "ManagedVec"; data: the elements.
Managed(kind, data) == [kind |-> kind, data |-> data]
\* size is the index for a set; ret is what a set returned.
ResizeCall(op, size, value, pre) ==
    [op |-> op, size |-> size, value |-> value, pre |-> pre, ret |-> Ok(NoVal)]

InitResize ==
    /\ \E kind \in {"ManagedBuffer", "ManagedVec"} : machine = Managed(kind, <<>>)
    /\ machine_call = ResizeCall("new", 0, 0, machine)
    /\ run_loop = "idle"
    /\ overflow_checks = TRUE
    /\ alive = TRUE
    /\ stack = Stack_new(0)
    /\ stack_call = StackCall("new", 0, 0, Ok(NoVal), stack)
    /\ stack_prev_call = stack_call
    /\ executor = NoVal
    /\ executor_call = NoVal

\* push(value) while the object is shorter than the largest size.
ManagedPush ==
    /\ Len(machine.data) < MaxSize
    /\ \E value \in Fillers :
          /\ machine' = [machine EXCEPT !.data = ManagedBuffer_push(@, value)]
          /\ machine_call' = ResizeCall("push", 0, value, machine)
    /\ UNCHANGED <<stackVars, executorVars, run_loop, overflow_checks, alive>>

\* ManagedBufferAccess::resize(size, byte) on a ManagedBuffer.
BufferResize ==
    /\ machine.kind = "ManagedBuffer"
    /\ \E size \in 0..MaxSize, byte \in Fillers :
          /\ machine' = [machine EXCEPT !.data = ManagedBuffer_resize(@, size, byte)]
          /\ machine_call' = ResizeCall("resize", size, byte, machine)
    /\ UNCHANGED <<stackVars, executorVars, run_loop, overflow_checks, alive>>

\* Resizable::resize(size, item) on a ManagedVec.
VecResize ==
    /\ machine.kind = "ManagedVec"
    /\ \E size \in 0..MaxSize, item \in Fillers :
          /\ machine' = [machine EXCEPT !.data = ManagedVec_resize(@, size, item)]
          /\ machine_call' = ResizeCall("resize", size, item, machine)
    /\ UNCHANGED <<stackVars, executorVars, run_loop, overflow_checks, alive>>

\* ManagedBufferAccess::set(index, byte) on a ManagedBuffer, and the set of
\* a ManagedVec, at any index.
ManagedSet ==
    /\ \E index \in 0..MaxSize, value \in Fillers :
       \E w \in {ManagedBuffer_set(machine.data, index, value)} :
          /\ machine' = [machine EXCEPT !.data = w.data]
          /\ machine_call' = [ResizeCall("set", index, value, machine) EXCEPT !.ret = w.ret]
    /\ UNCHANGED <<stackVars, executorVars, run_loop, overflow_checks, alive>>

NextResize == ManagedPush \/ ManagedSet \/ BufferResize \/ VecResize

SpecResize == InitResize /\ [][NextResize]_vars

-----------------------------------------------------------------------------
(* Claims about the word stack, checked under SpecStack.                   *)

\* The top element of a non-empty sequence (the last one pushed).
TopOf(seq) == seq[Len(seq)]
\* A sequence without its top element.
BelowTop(seq) == SubSeq(seq, 1, Len(seq) - 1)

\* C1: pop on an empty stack returns Err(StackUnderflow) and leaves the
\* stack unchanged; on a non-empty stack it removes and returns the top
\* element and decreases len by exactly 1.
C1_PopContract ==
    stack_call.op = "pop" =>
        IF Len(stack_call.pre.data) = 0
        THEN /\ stack_call.ret = Err("StackUnderflow")
             /\ stack = stack_call.pre
        ELSE /\ stack_call.ret = Ok(TopOf(stack_call.pre.data))
             /\ stack.data = BelowTop(stack_call.pre.data)
             /\ Len(stack.data) = Len(stack_call.pre.data) - 1
             /\ stack.limit = stack_call.pre.limit

\* C2: push(v) with len == limit returns Err(StackOverflow) and leaves
\* contents and length as they were; with len < limit it appends v as the
\* new top and increases len by exactly 1.
C2_PushContract ==
    stack_call.op = "push" =>
        /\ Len(stack_call.pre.data) = stack_call.pre.limit =>
              /\ stack_call.ret = Err("StackOverflow")
              /\ stack = stack_call.pre
        /\ Len(stack_call.pre.data) < stack_call.pre.limit =>
              /\ stack_call.ret = Ok(NoVal)
              /\ stack.data = Append(stack_call.pre.data, stack_call.v)
              /\ TopOf(stack.data) = stack_call.v
              /\ Len(stack.data) = Len(stack_call.pre.data) + 1
              /\ stack.limit = stack_call.pre.limit

\* C2 witness: a push that succeeded followed by a push refused on a full,
\* non-empty stack.
C2_Witness ==
    /\ stack_prev_call.op = "push"
    /\ stack_prev_call.ret.kind = "Ok"
    /\ stack_call.op = "push"
    /\ Len(stack_call.pre.data) = stack_call.pre.limit
    /\ stack_call.ret = Err("StackOverflow")

\* The number of elements a call needs on the stack.
Needs(call) ==
    CASE call.op = "pop" -> 1
      [] call.op \in {"peek", "set"} -> call.n + 1
      [] OTHER -> 0

\* C3: after any sequence of push, pop, peek and set, len <= limit, and an
\* operation that needs more elements than the stack holds reports
\* StackUnderflow and leaves the stack unchanged.
C3_BoundedAndUnderflowReported ==
    /\ Len(stack.data) <= stack.limit
    /\ Needs(stack_call) > Len(stack_call.pre.data) =>
          /\ stack_call.ret = Err("StackUnderflow")
          /\ stack = stack_call.pre

\* C4: on a stack with len < limit, push(v) followed by pop() returns v and
\* restores the stack to exactly its contents before the push.
C4_PushThenPop ==
    (/\ stack_prev_call.op = "push"
     /\ Len(stack_prev_call.pre.data) < stack_prev_call.pre.limit
     /\ stack_call.op = "pop")
    => /\ stack_call.ret = Ok(stack_prev_call.v)
       /\ stack = stack_prev_call.pre

\* C4 witness: push on an empty stack, then pop of the one-element stack.
C4_Witness ==
    /\ stack_prev_call.op = "push"
    /\ stack_prev_call.pre.data = <<>>
    /\ stack_prev_call.pre.limit > 0
    /\ stack_call.op = "pop"
    /\ stack_call.ret.kind = "Ok"
    /\ stack.data = <<>>

\* C5: peek(n) returns the element n below the top without changing the
\* stack iff n < len, otherwise StackUnderflow; set(n, v) replaces exactly
\* the element n below the top iff n < len, otherwise StackUnderflow with
\* the stack unchanged.
C5_IndexedAccess ==
    LET pre == stack_call.pre
        len == Len(stack_call.pre.data)
        n == stack_call.n
    IN  /\ stack_call.op = "peek" =>
              /\ stack = pre
              /\ stack_call.ret = IF n < len THEN Ok(pre.data[len - n])
                                  ELSE Err("StackUnderflow")
        /\ stack_call.op = "set" =>
              IF n < len
              THEN /\ stack_call.ret = Ok(NoVal)
                   /\ stack.limit = pre.limit
                   /\ Len(stack.data) = len
                   /\ \A i \in 1..len :
                         stack.data[i] = IF i = len - n THEN stack_call.v ELSE pre.data[i]
              ELSE /\ stack_call.ret = Err("StackUnderflow")
                   /\ stack = pre

\* C5 witness: a set below the top that changed the element, then a peek at
\* the same depth that read the new value back while the top differs.
C5_Witness ==
    /\ stack_prev_call.op = "set"
    /\ stack_prev_call.n > 0
    /\ stack_prev_call.ret.kind = "Ok"
    /\ stack_prev_call.pre.data[Len(stack_prev_call.pre.data) - stack_prev_call.n]
          # stack_prev_call.v
    /\ stack_call.op = "peek"
    /\ stack_call.n = stack_prev_call.n
    /\ stack_call.ret = Ok(stack_prev_call.v)
    /\ TopOf(stack.data) # stack_prev_call.v

-----------------------------------------------------------------------------
(* Claims about the interpreter, checked under SpecMachine.                *)

\* The last call was a step() or a run() that has made at least one step.
Stepped == machine_call.op \in {"step", "run"} /\ machine_call.step_ret # NoReturn

\* The last step was made with the PC at an offset inside the code.
SteppedAtByte ==
    /\ Stepped
    /\ machine_call.step_pre.position.kind = "Ok"
    /\ machine_call.step_pre.position.pc < Len(machine_call.step_pre.code)

\* The byte the last step fetched.
FetchedByte == machine_call.step_pre.code[machine_call.step_pre.position.pc + 1]

\* C6: once a machine has exited with reason r (a step produced Exit(r), or
\* exit(r) was called) its PC is Err(r), and every later step() and run()
\* returns Capture::Exit(r) with that r, evaluates no opcode and leaves
\* stack, memory and return range as they were.
C6_ExitIsFinal ==
    /\ machine_call.op = "exit" => machine.position = PosErr(machine_call.arg)
    /\ (Stepped /\ machine_call.step_ret.kind = "Exit") =>
          machine.position = PosErr(machine_call.step_ret.reason)
    /\ (Stepped /\ machine_call.step_pre.position.kind = "Err") =>
          /\ machine_call.step_ret = CaptureExit(machine_call.step_pre.position.reason)
          /\ machine_call.ret = machine_call.step_ret
          /\ machine_call.control = NoControl
          /\ machine.position = machine_call.step_pre.position
          /\ machine.stack = machine_call.step_pre.stack
          /\ machine.memory = machine_call.step_pre.memory
          /\ machine.return_range = machine_call.step_pre.return_range

\* C6 witness: a step() on a machine that had exited through RETURN, with a
\* non-empty return range and grown memory, returned Exit(Succeed(Returned)).
C6_Witness ==
    /\ machine_call.op = "step"
    /\ machine_call.pre.position = PosErr(ExitSucceed("Returned"))
    /\ machine_call.ret = CaptureExit(ExitSucceed("Returned"))
    /\ machine.return_range.end > machine.return_range.start
    /\ machine.memory.effective_len > 0

\* C7: a step with the PC at or past the end of the code behaves as STOP: it
\* returns Capture::Exit(Succeed(Stopped)) and sets the PC to
\* Err(Succeed(Stopped)).
C7_PastEndIsStop ==
    (/\ Stepped
     /\ machine_call.step_pre.position.kind = "Ok"
     /\ machine_call.step_pre.position.pc >= Len(machine_call.step_pre.code))
    => /\ machine_call.step_ret = CaptureExit(ExitSucceed("Stopped"))
       /\ machine.position = PosErr(ExitSucceed("Stopped"))

\* C8: for every opcode handed to the host, a step at PC p returns
\* Capture::Trap carrying that opcode, sets the PC to p + 1 and leaves stack
\* and memory unchanged.
C8_HostOpcodeTraps ==
    (SteppedAtByte /\ FetchedByte \in External)
    => /\ machine_call.step_ret = CaptureTrap(FetchedByte)
       /\ machine.position = PosOk(machine_call.step_pre.position.pc + 1)
       /\ machine.stack = machine_call.step_pre.stack
       /\ machine.memory = machine_call.step_pre.memory

\* The byte values no opcode is assigned to.
Unassigned == (0..255) \ (Dispatched \cup External)

\* C9: for every byte value that is not an assigned opcode, and for 0xFE, a
\* step ends the frame with Exit(Error(DesignatedInvalid)) and sets the PC to
\* Err of that reason; no byte value makes the dispatch panic.
C9_UnassignedIsDesignatedInvalid ==
    /\ (SteppedAtByte /\ FetchedByte \in Unassigned \cup {INVALID})
       => /\ machine_call.step_ret = CaptureExit(ExitError("DesignatedInvalid"))
          /\ machine.position = PosErr(ExitError("DesignatedInvalid"))
    /\ SteppedAtByte => machine_call.control # ControlPanic("Opcode doesn't found!")

\* C10: a step at PC p whose opcode returns Continue(n) sets the PC to p + n
\* and returns Ok; one whose opcode returns Jump(t) sets the PC to t and
\* returns Ok; run() keeps stepping through such results and returns exactly
\* the first Exit or Trap capture a step produces.
C10_ContinueJumpAndRun ==
    /\ (Stepped /\ machine_call.control.ctl = "Continue") =>
          /\ machine.position =
                 PosOk(machine_call.step_pre.position.pc + machine_call.control.n)
          /\ machine_call.step_ret = StepOk
    /\ (Stepped /\ machine_call.control.ctl = "Jump") =>
          /\ machine.position = PosOk(machine_call.control.n)
          /\ machine_call.step_ret = StepOk
    /\ (machine_call.op = "run" /\ run_loop = "running") =>
          /\ machine_call.step_ret \in {NoReturn, StepOk}
          /\ machine_call.first_capture = NoReturn
          /\ machine_call.ret = NoReturn
    /\ (machine_call.op = "run" /\ run_loop = "idle" /\ alive) =>
          /\ machine_call.ret.kind \in {"Exit", "Trap"}
          /\ machine_call.ret = machine_call.first_capture
          /\ machine_call.ret = machine_call.step_ret
          /\ ~machine_call.stepped_after

\* C10 witness: a run() from PC 0 over JUMPDEST PUSH1 0 PUSH1 0 JUMP, which
\* goes round through Continue(1), Continue(2) and Jump(0) until a push
\* overflows the stack, returned that first capture.
C10_Witness ==
    /\ machine_call.op = "run"
    /\ run_loop = "idle"
    /\ machine_call.pre.position = PosOk(0)
    /\ machine.code = <<JUMPDEST, PUSH1, 0, PUSH1, 0, JUMP>>
    /\ machine_call.control.ctl = "Exit"
    /\ machine_call.ret = CaptureExit(ExitError("StackOverflow"))
    /\ machine.position = PosErr(ExitError("StackOverflow"))

\* The offsets at which the left-to-right decoding of `code` from offset i
\* finds an opcode: every byte that is not the literal payload of a PUSHn.
RECURSIVE OpcodeOffsets(_, _)
OpcodeOffsets(code, i) ==
    IF i >= Len(code) THEN {}
    ELSE {i} \cup OpcodeOffsets(code,
                                i + 1 + (IF code[i + 1] \in 96..127 THEN code[i + 1] - 95 ELSE 0))

\* t is a legal jump target of `code`.
LegalTarget(code, t) ==
    /\ t < Len(code)
    /\ code[t + 1] = 91
    /\ t \in OpcodeOffsets(code, 0)

\* The last step evaluated a JUMP, or a JUMPI whose condition is non-zero,
\* with its operands on the stack.
SteppedAtJump ==
    /\ SteppedAtByte
    /\ \/ FetchedByte = JUMP /\ Len(machine_call.step_pre.stack.data) >= 1
       \/ /\ FetchedByte = JUMPI
          /\ Len(machine_call.step_pre.stack.data) >= 2
          /\ BelowTop(machine_call.step_pre.stack.data)
                 [Len(machine_call.step_pre.stack.data) - 1] # 0

\* The target of that jump: the top of the stack before the step.
JumpTarget == TopOf(machine_call.step_pre.stack.data)

\* C11: a JUMP, or a taken JUMPI, to target t sets the PC to t iff the byte
\* at t is JUMPDEST and t is not inside the payload of an earlier PUSHn;
\* every other target, one past the end of the code included, ends the frame
\* with Error(InvalidJump).
C11_JumpValidity ==
    SteppedAtJump =>
        IF LegalTarget(machine_call.step_pre.code, JumpTarget)
        THEN /\ machine_call.step_ret = StepOk
             /\ machine.position = PosOk(JumpTarget)
        ELSE /\ machine_call.step_ret = CaptureExit(ExitError("InvalidJump"))
             /\ machine.position = PosErr(ExitError("InvalidJump"))

\* C11 witness: a taken JUMPI whose target holds the JUMPDEST byte inside
\* the payload of a PUSH1 ended the frame with InvalidJump.
C11_Witness ==
    /\ SteppedAtJump
    /\ FetchedByte = JUMPI
    /\ JumpTarget < Len(machine.code)
    /\ machine.code[JumpTarget + 1] = JUMPDEST
    /\ machine_call.step_ret = CaptureExit(ExitError("InvalidJump"))

-----------------------------------------------------------------------------
(* Claims about return_value, checked under SpecReturn.                    *)

\* C12: for every return range [start, end) with start <= end,
\* return_value() yields exactly end - start bytes, byte i being the memory
\* byte at start + i when that offset has been written and 0 otherwise; in
\* all three cases: start beyond the largest addressable offset, only end
\* beyond it, both within it.
C12_ReturnValueIsTheRange ==
    machine_call.op = "return_value" =>
        LET start == machine_call.pre.return_range.start
            end == machine_call.pre.return_range.end
            data == machine_call.pre.memory.data
        IN  /\ machine_call.ret.kind = "Ok"
            /\ Len(machine_call.ret.bytes) = end - start
            /\ \A i \in 0..(end - start - 1) :
                   machine_call.ret.bytes[i + 1] =
                       IF start + i < Len(data) THEN data[start + i + 1] ELSE 0

-----------------------------------------------------------------------------
(* Claims about the executor, checked under SpecExecutor.                  *)

\* The last operation popped a frame: the frame that ended, its substate
\* when the operation began, and the substate of its parent afterwards.
FrameEnded == /\ executor_call.op \in {"end", "opcode", "call", "create"}
              /\ Len(executor.substates) < Len(executor_call.pre.substates)
EndedFrame == Current(executor_call.pre.frames)
EndedChild == Current(executor_call.pre.substates)
ParentAfter == Current(executor.substates)

\* The union of two warm sets.
WarmUnion(a, b) ==
    [some |-> a.some,
     accessed_addresses |-> a.accessed_addresses \cup b.accessed_addresses,
     accessed_storage |-> a.accessed_storage \cup b.accessed_storage]

\* C13: after a call frame ends in Revert the parent's world and warm sets
\* are what they were immediately before the call; after it ends in Succeed
\* the parent's world is the child's and the parent's warm sets have gained
\* the child's; an Error or Fatal end leaves the parent's warm sets as they
\* were before the call.
C13_RevertAndCommit ==
    (alive /\ FrameEnded /\ EndedFrame.kind = "call") =>
        /\ executor_call.reason.kind = "Revert" =>
              /\ ParentAfter.state = EndedFrame.before.state
              /\ ParentAfter.metadata.accessed = EndedFrame.before.metadata.accessed
        /\ (executor_call.reason.kind = "Succeed" /\ executor_call.op = "end") =>
              /\ ParentAfter.state = EndedChild.state
              /\ ParentAfter.metadata.accessed =
                     WarmUnion(EndedFrame.before.metadata.accessed,
                               EndedChild.metadata.accessed)
        /\ (executor_call.reason.kind = "Succeed" /\ executor_call.op = "opcode") =>
              EndedFrame.address \in ParentAfter.state.deleted
        /\ executor_call.reason.kind \in {"Error", "Fatal"} =>
              /\ ParentAfter.state = EndedFrame.before.state
              /\ ParentAfter.metadata.accessed = EndedFrame.before.metadata.accessed

\* A call of an account with no record, which the call touched, has ended
\* in Succeed: the parent's world has the record.
TouchCommitted ==
    /\ alive /\ FrameEnded /\ EndedFrame.kind = "call"
    /\ executor_call.reason.kind = "Succeed" /\ executor_call.op = "end"
    /\ ~State_known(EndedFrame.before.state, EndedFrame.address)
    /\ State_known(ParentAfter.state, EndedFrame.address)

\* A nested call that changed the world and warmed an entry has reverted.
C13_Witness ==
    /\ alive /\ FrameEnded /\ EndedFrame.kind = "call"
    /\ Len(executor.substates) > 1
    /\ executor_call.reason.kind = "Revert"
    /\ EndedChild.state # EndedFrame.before.state
    /\ EndedChild.metadata.accessed # EndedFrame.before.metadata.accessed

\* The parent's substate while the ended frame was running, and the ended
\* frame's gasometer at the moment its substate exited (a create has paid
\* the code deposit by then).
ParentBefore == executor_call.pre.substates[Len(executor_call.pre.substates) - 1]
ChildGasometerAtExit ==
    IF EndedFrame.kind = "create" /\ executor_call.reason.kind = "Succeed"
    THEN Gasometer_record_deposit(EndedChild.metadata.gasometer,
                                  Len(executor_call.out)).gasometer
    ELSE EndedChild.metadata.gasometer

\* C14: when a frame that ended in Succeed is committed, the parent's
\* remaining gas grows by the child's remaining gas, its refund counter by
\* the child's refunds, its warm sets become the union of both, and its
\* is_static flag and depth stay as they were.
C14_CommitMergesMetadata ==
    (alive /\ FrameEnded /\ executor_call.op = "end"
       /\ executor_call.reason.kind = "Succeed") =>
        /\ Gasometer_gas(ParentAfter.metadata.gasometer) =
               Gasometer_gas(ParentBefore.metadata.gasometer)
                 + Gasometer_gas(ChildGasometerAtExit)
        /\ Gasometer_refunded_gas(ParentAfter.metadata.gasometer) =
               Gasometer_refunded_gas(ParentBefore.metadata.gasometer)
                 + Gasometer_refunded_gas(ChildGasometerAtExit)
        /\ ParentAfter.metadata.accessed =
               WarmUnion(ParentBefore.metadata.accessed, EndedChild.metadata.accessed)
        /\ ParentAfter.metadata.is_static = ParentBefore.metadata.is_static
        /\ ParentAfter.metadata.depth = ParentBefore.metadata.depth

\* A frame holding gas, a refund and a warm slot its parent lacks has been
\* committed.
C14_Witness ==
    /\ alive /\ FrameEnded /\ executor_call.op = "end"
    /\ executor_call.reason.kind = "Succeed"
    /\ Gasometer_gas(EndedChild.metadata.gasometer) > 0
    /\ Gasometer_refunded_gas(EndedChild.metadata.gasometer) > 0
    /\ ~(EndedChild.metadata.accessed.accessed_storage
           \subseteq ParentBefore.metadata.accessed.accessed_storage)

\* The last operation was a CALL or CREATE that returned an error without
\* running a frame; the calling frame goes on.
EntryFailed ==
    /\ executor_call.op \in {"call", "create"}
    /\ executor_call.outcome = "exit"
    /\ executor_call.reason.kind = "Error"
    /\ Len(executor.substates) = Len(executor_call.pre.substates)

\* The calling frame's substate when call_inner / create_inner was called
\* (pre_validate has charged the opcode), and after it returned.
CallerAtEntry ==
    Current(pre_validate(executor_call.pre.substates,
                         Current(executor_call.pre.frames).address,
                         executor_call.ins).substates)
CallerAfter == Current(executor.substates)

\* The gas limit of the substate that was entered, the stipend in it, the
\* gas the caller was charged for it, and the 64th charged in estimate mode.
GasGiven == IF executor_call.gas_limit = NoVal THEN 0 ELSE executor_call.gas_limit
StipendGiven ==
    IF executor_call.gas_limit # NoVal /\ executor_call.op = "call"
         /\ executor_call.ins.opcode = CALL /\ executor_call.ins.value # 0
    THEN executor.config.call_stipend ELSE 0
GasForwarded == GasGiven - StipendGiven
GasHeldBack ==
    IF executor_call.gas_limit # NoVal /\ executor.config.call_l64_after_gas
         /\ executor.config.estimate
    THEN Gasometer_gas(CallerAtEntry.metadata.gasometer)
           - l64(Gasometer_gas(CallerAtEntry.metadata.gasometer))
    ELSE 0

\* A frame that ran and ended in Error gives its parent no gas, no refund and
\* no warm entry.
ErrorEndRecoversNothing ==
    (alive /\ FrameEnded /\ executor_call.reason.kind = "Error") =>
        /\ Gasometer_gas(ParentAfter.metadata.gasometer) =
               Gasometer_gas(ParentBefore.metadata.gasometer)
        /\ Gasometer_refunded_gas(ParentAfter.metadata.gasometer) =
               Gasometer_refunded_gas(ParentBefore.metadata.gasometer)
        /\ ParentAfter.metadata.accessed = ParentBefore.metadata.accessed

\* A frame that ended in Revert gives its parent exactly its unspent gas, no
\* refund and no warm entry.
RevertRecoversUnspent ==
    (alive /\ FrameEnded /\ executor_call.reason.kind = "Revert") =>
        /\ Gasometer_gas(ParentAfter.metadata.gasometer) =
               Gasometer_gas(ParentBefore.metadata.gasometer)
                 + Gasometer_gas(EndedChild.metadata.gasometer)
        /\ Gasometer_refunded_gas(ParentAfter.metadata.gasometer) =
               Gasometer_refunded_gas(ParentBefore.metadata.gasometer)
        /\ ParentAfter.metadata.accessed = ParentBefore.metadata.accessed

\* The caller keeps what it had at entry less the 64th of estimate mode and
\* less the gas it forwarded, plus `recovered`.
CallerRecovers(recovered) ==
    /\ Gasometer_gas(CallerAfter.metadata.gasometer) =
           Gasometer_gas(CallerAtEntry.metadata.gasometer) - GasHeldBack - GasForwarded
             + recovered
    /\ Gasometer_refunded_gas(CallerAfter.metadata.gasometer) =
           Gasometer_refunded_gas(CallerAtEntry.metadata.gasometer)

\* C15 as claimed: every Error other than CallTooDeep recovers none of the
\* forwarded gas and no refund; a Revert recovers exactly the unspent gas.
C15_ErrorsRecoverNothing ==
    /\ ErrorEndRecoversNothing
    /\ RevertRecoversUnspent
    /\ (alive /\ EntryFailed /\ executor_call.reason.what # "CallTooDeep") =>
           CallerRecovers(0)

\* C15 amended: an Error of a frame that ran, and a create collision, recover
\* nothing; call_inner's entry failures CallTooDeep and OutOfFund exit the
\* entered substate as Reverted, so the caller recovers the whole gas limit
\* given to it, stipend included; a Revert recovers exactly the unspent gas.
C15_ErrorsAndEntryFailures ==
    /\ ErrorEndRecoversNothing
    /\ RevertRecoversUnspent
    /\ (alive /\ EntryFailed) =>
           IF executor_call.reason.what \in {"CallTooDeep", "OutOfFund"}
           THEN CallerRecovers(GasGiven)
           ELSE CallerRecovers(0)

\* A CALL that forwarded gas has failed with OutOfFund.
C15_Witness ==
    /\ alive /\ EntryFailed
    /\ executor_call.op = "call"
    /\ executor_call.reason.what = "OutOfFund"
    /\ GasForwarded > 0

\* The transaction has returned: the executor's own metadata, and the refund
\* that used_gas() applies.
TransactionDone == alive /\ executor.phase = "done"
RootMetadata == executor.substates[1].metadata
RefundApplied ==
    executor.gas_limit - used_gas(RootMetadata, executor.config)
      - Gasometer_gas(RootMetadata.gasometer)

\* C16: after a transaction, gas_limit = used_gas() + remaining gas + applied
\* refund, the applied refund being at least 0, at most the total used gas
\* divided by max_refund_quotient and at most the refund counter; and
\* 0 <= used_gas() <= gas_limit.
C16_GasConservation ==
    TransactionDone =>
        /\ RefundApplied >= 0
        /\ RefundApplied <= Gasometer_total_used_gas(RootMetadata.gasometer)
                              \div executor.config.max_refund_quotient
        /\ RefundApplied <= Gasometer_refunded_gas(RootMetadata.gasometer)
        /\ used_gas(RootMetadata, executor.config) >= 0
        /\ used_gas(RootMetadata, executor.config) <= executor.gas_limit
        /\ Gasometer_gas(RootMetadata.gasometer) >= 0
        /\ Gasometer_gas(RootMetadata.gasometer) <= executor.gas_limit

\* A transaction of two instructions has returned with a refund counter
\* above the cap, so only part of it is applied.
C16_Witness ==
    /\ TransactionDone
    /\ executor.ops >= 2
    /\ RefundApplied > 0
    /\ RefundApplied < Gasometer_refunded_gas(RootMetadata.gasometer)

\* The last operation was an opcode-level CALL or CREATE under EIP-150 that
\* entered a substate; g is the caller's remaining gas when call_inner /
\* create_inner was called.
EnteredWithL64 ==
    /\ alive
    /\ executor_call.op \in {"call", "create"}
    /\ executor_call.gas_limit # NoVal
    /\ executor.config.call_l64_after_gas
ParentRemaining == Gasometer_gas(CallerAtEntry.metadata.gasometer)

\* C17 as claimed: the child's gas limit is at most floor(g * 63 / 64).
C17_ChildAtMostFloor63of64 ==
    EnteredWithL64 => executor_call.gas_limit <= (ParentRemaining * 63) \div 64

\* C17 amended: the child's gas limit is at most g - floor(g / 64), plus the
\* call stipend when the CALL sends value; without the stipend it is the
\* requested gas when that is smaller.
C17_ChildAtMostL64 ==
    EnteredWithL64 =>
        /\ executor_call.gas_limit
               <= ParentRemaining - (ParentRemaining \div 64) + StipendGiven
        /\ GasForwarded <= ParentRemaining - (ParentRemaining \div 64)
        /\ executor_call.op = "call" => GasForwarded <= executor_call.ins.gas

\* A CALL without value asked for more than the parent had, with g >= 64
\* and not a multiple of 64: its frame runs with exactly g - floor(g / 64).
C17_Witness ==
    /\ EnteredWithL64
    /\ executor_call.op = "call"
    /\ executor_call.outcome = "run"
    /\ executor_call.ins.value = 0
    /\ executor_call.ins.gas > ParentRemaining
    /\ ParentRemaining >= 64
    /\ ParentRemaining % 64 # 0
    /\ executor_call.gas_limit = ParentRemaining - (ParentRemaining \div 64)
    /\ executor_call.gas_limit > (ParentRemaining * 63) \div 64

\* The last operation was a CALL or CREATE whose opcode passed pre_validate:
\* an attempt to enter a frame one deeper than the calling frame. The
\* transaction's top-level frame has depth Some(0).
EnterAttempted ==
    /\ alive
    /\ executor_call.op \in {"call", "create"}
    /\ pre_validate(executor_call.pre.substates, Current(executor_call.pre.frames).address,
                    executor_call.ins).ret.kind = "Ok"
AttemptedDepth == CallerAtEntry.metadata.depth + 1

\* C18: an attempt to enter a frame at depth call_stack_limit + 1, by CALL or
\* by CREATE, fails with CallTooDeep, runs no frame, changes nothing in the
\* world and leaves the caller's remaining gas as it was; an attempt at a
\* depth up to call_stack_limit does not fail with CallTooDeep.
C18_DepthLimit ==
    EnterAttempted =>
        IF AttemptedDepth > executor.config.call_stack_limit
        THEN /\ executor_call.outcome = "exit"
             /\ executor_call.reason = ExitError("CallTooDeep")
             /\ CallerAfter.state = CallerAtEntry.state
             /\ Gasometer_gas(CallerAfter.metadata.gasometer) =
                    Gasometer_gas(CallerAtEntry.metadata.gasometer)
        ELSE executor_call.reason # ExitError("CallTooDeep")

\* What the code does at the limit: a CALL is refused when the child's depth
\* exceeds call_stack_limit, and the caller gets back what the child was
\* given; a CREATE is refused only when the creator's own depth exceeds it.
DepthChecksAsCoded ==
    EnterAttempted =>
        /\ executor_call.op = "call" =>
              IF AttemptedDepth > executor.config.call_stack_limit
              THEN /\ executor_call.reason = ExitError("CallTooDeep")
                   /\ CallerAfter.state = CallerAtEntry.state
                   /\ CallerRecovers(GasGiven)
              ELSE executor_call.reason # ExitError("CallTooDeep")
        /\ executor_call.op = "create" =>
              (executor_call.reason = ExitError("CallTooDeep")
                 <=> CallerAtEntry.metadata.depth > executor.config.call_stack_limit)

\* C19: in the substate stack every frame's is_static flag is the flag
\* requested at its entry OR its parent's flag, the executor's own substate
\* is not static, every frame above a static frame is static, and a frame's
\* exit leaves the parent's flag as it was.
C19_StaticPropagates ==
    alive =>
        /\ ~executor.substates[1].metadata.is_static
        /\ \A i \in 2..Len(executor.substates) :
              executor.substates[i].metadata.is_static
                = (executor.frames[i].is_static
                     \/ executor.substates[i - 1].metadata.is_static)
        /\ \A i \in 1..Len(executor.substates) : \A j \in i..Len(executor.substates) :
              executor.substates[i].metadata.is_static
                => executor.substates[j].metadata.is_static
        /\ FrameEnded =>
              ParentAfter.metadata.is_static = ParentBefore.metadata.is_static

\* A frame entered by a plain CALL runs static because its parent, entered
\* by STATICCALL from a frame that is not static, is static.
C19_Witness ==
    /\ alive
    /\ Len(executor.substates) = 4
    /\ ~executor.substates[2].metadata.is_static
    /\ executor.substates[3].metadata.is_static
    /\ ~executor.frames[4].is_static
    /\ executor.substates[4].metadata.is_static

\* The last operation was a state-changing instruction executed by a static
\* frame.
Mutating(ins) ==
    \/ ins.opcode \in {SSTORE, CREATE, CREATE2, SELFDESTRUCT}
    \/ ins.opcode \in LOG0..(LOG0 + 4)
    \/ ins.opcode = CALL /\ ins.value # 0
MutationInStaticFrame ==
    /\ executor_call.op \in {"opcode", "call", "create"}
    /\ EndedChild.metadata.is_static
    /\ Mutating(executor_call.ins)

\* C20: in a static frame a state-changing instruction is refused by
\* pre_validate with ModifierDisabled: nothing is charged or made warm, the
\* frame ends with that error, and the world the parent sees is unchanged.
C20_StaticRejectsMutation ==
    MutationInStaticFrame =>
        /\ pre_validate(executor_call.pre.substates, EndedFrame.address, executor_call.ins)
             = Validated(Err("ModifierDisabled"), executor_call.pre.substates)
        /\ alive
        /\ FrameEnded
        /\ executor_call.reason = ExitError("ModifierDisabled")
        /\ ParentAfter.state = ParentBefore.state
        /\ Below(executor.substates) = Below(Below(executor_call.pre.substates))

\* A static frame has tried to overwrite a storage slot that holds another
\* value.
C20_Witness ==
    /\ MutationInStaticFrame
    /\ executor_call.ins.opcode = SSTORE
    /\ EndedChild.state.storage[EndedFrame.address] # executor_call.ins.value
    /\ executor_call.reason = ExitError("ModifierDisabled")

\* The last operation was a transact_*, and whether the gas limit covers its
\* transaction-level cost.
TransactOps == {"transact_call", "transact_create", "transact_create2"}
Transacting == executor_call.op \in TransactOps
TransactionCost ==
    IF executor_call.op = "transact_call"
    THEN call_transaction_cost ELSE create_transaction_cost
CostCovered == executor_call.pre.gas_limit >= TransactionCost
RootBefore == executor_call.pre.substates[1]

\* C21: a transact_call, transact_create or transact_create2 whose
\* transaction-level cost exceeds the gas limit returns an Error with empty
\* output and no other effect: no substate is entered, no frame runs, the
\* world (nonces, balances, code, storage) and the warm sets are as before;
\* no gas remains and used_gas() is the whole gas limit.
C21_CostNotCovered ==
    (alive /\ Transacting /\ ~CostCovered) =>
        /\ executor_call.outcome = "exit"
        /\ executor_call.reason.kind = "Error"
        /\ executor_call.output = <<>>
        /\ executor_call.gas_limit = NoVal
        /\ executor.phase = "done"
        /\ Len(executor.substates) = 1
        /\ executor.frames = executor_call.pre.frames
        /\ executor.substates[1].state = RootBefore.state
        /\ executor.substates[1].metadata.accessed = RootBefore.metadata.accessed
        /\ Gasometer_gas(executor.substates[1].metadata.gasometer) = 0
        /\ used_gas(executor.substates[1].metadata, executor.config) = executor.gas_limit

\* A create transaction with some gas, but less than its cost, was refused.
C21_Witness ==
    /\ alive /\ Transacting /\ ~CostCovered
    /\ executor_call.op = "transact_create2"
    /\ executor_call.pre.gas_limit > 0

\* The caller's nonce in the executor's own substate, before the transact_*
\* and now.
CallerNonceBefore == RootBefore.state.nonce["caller"]
CallerNonceNow == executor.substates[1].state.nonce["caller"]

\* C22: after a transact_call, transact_create or transact_create2 whose
\* transaction-level cost is covered, the caller's nonce is one higher than
\* before, whatever call_inner / create_inner returned.
C22_NonceIncremented ==
    (alive /\ Transacting /\ CostCovered) => CallerNonceNow = CallerNonceBefore + 1

\* What the code does: transact_call increments the nonce itself; the create
\* transactions leave it to create_inner, which returns OutOfFund first.
NonceAsCoded ==
    (alive /\ Transacting /\ CostCovered) =>
        IF executor_call.op # "transact_call"
             /\ executor_call.reason = ExitError("OutOfFund")
        THEN CallerNonceNow = CallerNonceBefore
        ELSE CallerNonceNow = CallerNonceBefore + 1

\* The last operation called create_inner: a create transaction whose cost
\* was covered, or a CREATE / CREATE2 that passed pre_validate. CreateEntry
\* is the creator's substate when create_inner was called.
CreateTransacting == executor_call.op \in {"transact_create", "transact_create2"}
CreateAttempted ==
    \/ CreateTransacting /\ CostCovered
    \/ /\ executor_call.op = "create"
       /\ pre_validate(executor_call.pre.substates, Current(executor_call.pre.frames).address,
                       executor_call.ins).ret.kind = "Ok"
Creator ==
    IF executor_call.op = "create" THEN Current(executor_call.pre.frames).address
    ELSE "caller"
CreateEntry ==
    IF executor_call.op = "create" THEN CallerAtEntry
    ELSE [RootBefore EXCEPT
             !.metadata.gasometer =
                 Gasometer_record_transaction(@, create_transaction_cost).gasometer]
CreateWithinDepth ==
    CreateEntry.metadata.depth = NoVal
      \/ CreateEntry.metadata.depth <= executor.config.call_stack_limit
Underfunded == CreateEntry.state.balance[Creator] < executor_call.ins.value

\* C23: a create_inner that reaches the balance check with the creator's
\* balance below the value returns Error(OutOfFund), no address and empty
\* output, having forwarded no gas, entered no substate and changed nothing
\* of the world: the creator's nonce, all balances, the remaining gas and the
\* substate stack are those at create_inner's entry.
C23_OutOfFundIsFirst ==
    (alive /\ CreateAttempted /\ CreateWithinDepth /\ Underfunded) =>
        /\ executor_call.outcome = "exit"
        /\ executor_call.reason = ExitError("OutOfFund")
        /\ executor_call.address = NoAddress
        /\ executor_call.output = <<>>
        /\ executor_call.gas_limit = NoVal
        /\ Len(executor.substates) = Len(executor_call.pre.substates)
        /\ Below(executor.substates) = Below(executor_call.pre.substates)
        /\ Current(executor.substates).state = CreateEntry.state
        /\ Current(executor.substates).metadata.gasometer = CreateEntry.metadata.gasometer
        /\ Current(executor.substates).metadata.depth = CreateEntry.metadata.depth

\* A frame with gas to forward executed CREATE with more value than it has.
C23_Witness ==
    /\ alive /\ CreateAttempted /\ CreateWithinDepth /\ Underfunded
    /\ executor_call.op = "create"
    /\ Gasometer_gas(CreateEntry.metadata.gasometer) > 0

\* The address create_inner is creating, and whether it is in use at
\* create_inner's entry.
CreateTarget ==
    create_address(CreateEntry.state,
                   IF executor_call.op = "transact_create2"
                        \/ executor_call.ins.opcode = CREATE2
                   THEN Create2Run(Creator) ELSE Legacy(Creator))
CreateCollides ==
    /\ CreateAttempted /\ CreateWithinDepth /\ ~Underfunded
    /\ Creator # CreateTarget
    /\ \/ Len(State_code(CreateEntry.state, CreateTarget)) # 0
       \/ State_nonce(CreateEntry.state, CreateTarget) > 0

\* C24: a create whose target has code or a non-zero nonce returns
\* Error(CreateCollision), no address and empty output; the target's storage,
\* code, nonce and balance are what they were, of the world only the
\* creator's nonce has changed; the substate entered is gone again and the
\* creator has lost the gas forwarded to it.
C24_Collision ==
    (alive /\ CreateCollides) =>
        /\ executor_call.outcome = "exit"
        /\ executor_call.reason = ExitError("CreateCollision")
        /\ executor_call.address = NoAddress
        /\ executor_call.output = <<>>
        /\ executor_call.gas_limit # NoVal
        /\ Len(executor.substates) = Len(executor_call.pre.substates)
        /\ Below(executor.substates) = Below(executor_call.pre.substates)
        /\ Current(executor.substates).state = State_inc_nonce(CreateEntry.state, Creator)
        /\ Gasometer_gas(Current(executor.substates).metadata.gasometer) =
               Gasometer_gas(CreateEntry.metadata.gasometer)
                 - (IF executor_call.op = "create" THEN GasHeldBack ELSE 0)
                 - executor_call.gas_limit
        /\ Gasometer_refunded_gas(Current(executor.substates).metadata.gasometer) =
               Gasometer_refunded_gas(CreateEntry.metadata.gasometer)

\* A CREATE2 that forwarded gas met the address to which the same CREATE2
\* of its creator had deployed before: it holds code and a nonce.
C24_Witness ==
    /\ alive /\ CreateCollides
    /\ executor_call.gas_limit > 0
    /\ executor_call.ins.opcode = CREATE2
    /\ Len(State_code(CreateEntry.state, CreateTarget)) # 0
    /\ State_nonce(CreateEntry.state, CreateTarget) > 0

\* The init code of a create has ended in Succeed with return value
\* executor_call.out; the deposit is paid from the gas its frame has left.
InitCodeSucceeded ==
    /\ executor_call.op \in {"end", "opcode"}
    /\ executor_call.ended.kind = "Succeed"
    /\ EndedFrame.kind = "create"
DepositPaid ==
    Gasometer_record_deposit(EndedChild.metadata.gasometer, Len(executor_call.out)).ret.kind
        = "Ok"
StartsWithEF == Len(executor_call.out) > 0 /\ executor_call.out[1] = 239
OverContractLimit == Len(executor_call.out) > executor.config.create_contract_limit

\* What the deployment checks give for the returned code: InvalidCode,
\* CreateContractLimit or the deposit's Error, each with the substate
\* discarded (the parent's world as while the init code ran, no address, no
\* output); otherwise Succeed with the address, the substate committed and
\* the address's code set to the returned code.
DeploymentFollowsChecks ==
    /\ alive
    /\ executor_call.output = <<>>
    /\ IF StartsWithEF \/ OverContractLimit \/ ~DepositPaid
       THEN /\ executor_call.reason.kind = "Error"
            /\ StartsWithEF => executor_call.reason.what = "InvalidCode"
            /\ (~StartsWithEF /\ OverContractLimit) =>
                   executor_call.reason.what = "CreateContractLimit"
            /\ executor_call.address = NoAddress
            /\ ParentAfter.state = ParentBefore.state
            /\ Gasometer_gas(ParentAfter.metadata.gasometer) =
                   Gasometer_gas(ParentBefore.metadata.gasometer)
       ELSE /\ executor_call.reason = executor_call.ended
            /\ executor_call.address = EndedFrame.address
            /\ ParentAfter.state =
                   State_set_code(EndedChild.state, EndedFrame.address, executor_call.out)

\* C25: when init code ends in Succeed with a returned payload of any
\* length, the empty one included, the create gives InvalidCode for a payload
\* starting with 0xEF, else CreateContractLimit for one longer than the
\* limit, else an Error when the deposit cannot be paid, each discarding the
\* substate; otherwise it commits, sets the target's code to the payload and
\* returns Succeed with the target address.
C25_DeploymentChecks == InitCodeSucceeded => DeploymentFollowsChecks

\* What the code does: the same for every payload of at least one byte; for
\* an empty payload check_first_byte reads byte 0 and the create does not
\* return.
DeploymentAsCoded ==
    InitCodeSucceeded =>
        IF Len(executor_call.out) = 0 THEN ~alive ELSE DeploymentFollowsChecks

\* The account that made the create whose frame has ended: the transaction's
\* caller for the top-level frame, the frame below otherwise.
EndedCreator ==
    IF Len(executor_call.pre.frames) = 2 THEN "caller"
    ELSE executor_call.pre.frames[Len(executor_call.pre.frames) - 1].address

\* A create's frame has run and the create has failed: the init code ended
\* in Error, Revert or Fatal, or its returned code failed a deployment check.
CreateFailed ==
    /\ alive /\ FrameEnded
    /\ EndedFrame.kind = "create"
    /\ EndedCreator # EndedFrame.address
    /\ executor_call.reason.kind # "Succeed"

\* C26: after a create that ran and failed, the creator's world is the one
\* at the create with only the creator's nonce one higher: the balances of
\* creator and target, the target's nonce, storage and code are as before.
C26_FailedCreateRollsBack ==
    CreateFailed =>
        ParentAfter.state = State_inc_nonce(EndedFrame.before.state, EndedCreator)

\* A create that had sent value to an address holding storage failed on its
\* returned code: balance, storage and nonce of the target had changed.
C26_Witness ==
    /\ CreateFailed
    /\ executor_call.ended.kind = "Succeed"
    /\ EndedChild.state.balance[EndedFrame.address]
           > EndedFrame.before.state.balance[EndedFrame.address]
    /\ EndedChild.state.storage[EndedFrame.address]
           # EndedFrame.before.state.storage[EndedFrame.address]
    /\ EndedChild.state.nonce[EndedFrame.address]
           > EndedFrame.before.state.nonce[EndedFrame.address]

\* The transaction that has returned was a transact_call; the bytes its
\* top-level frame returned with RETURN or REVERT.
CallTransaction ==
    \/ executor_call.op = "transact_call"
    \/ /\ Len(executor_call.pre.frames) >= 2
       /\ executor_call.pre.frames[2].kind = "call"
ReturnedPayload == executor_call.reason = ExitSucceed("Returned")
RevertedPayload == executor_call.reason.kind = "Revert"

\* C27 as claimed: for all three entry points the returned bytes are the
\* RETURN payload for Succeed(Returned), the REVERT payload for Revert and
\* empty for every other reason.
C27_OutputOfAllEntryPoints ==
    TransactionDone =>
        executor_call.output =
            IF ReturnedPayload \/ RevertedPayload THEN executor_call.out ELSE <<>>

\* C27 amended: transact_call returns the RETURN payload for
\* Succeed(Returned); transact_create and transact_create2 return empty
\* bytes for every Succeed, the payload having become the code; all three
\* return the REVERT payload for Revert and empty bytes for Succeed(Stopped),
\* Error and Fatal.
C27_OutputByEntryPoint ==
    TransactionDone =>
        executor_call.output =
            IF (ReturnedPayload /\ CallTransaction) \/ RevertedPayload
            THEN executor_call.out ELSE <<>>

\* A create transaction whose init code returned a payload has returned
\* Succeed(Returned) with empty bytes.
C27_Witness ==
    /\ TransactionDone
    /\ ~CallTransaction
    /\ ReturnedPayload
    /\ executor_call.out # <<>>
    /\ executor_call.output = <<>>

\* The last operation was a CALL whose target is a precompile and which got
\* as far as calling it: Precompiled is what PrecompileSet::execute gave, the
\* cost of an Ok recorded.
PrecompileCalled ==
    /\ executor_call.op = "call"
    /\ executor_call.precompile # NoResult
PrecompileCostPaid ==
    executor_call.precompile.kind = "Ok"
      /\ executor_call.precompile.cost <= executor_call.gas_limit
Precompiled ==
    CASE PrecompileCostPaid -> "Ok"
      [] executor_call.precompile.kind = "Ok" -> "Error"
      [] OTHER -> executor_call.precompile.kind
CallTransfer ==
    Transfer(Current(executor_call.pre.frames).address, executor_call.ins.to,
             executor_call.ins.value)
\* The caller's world once the call is committed: the precompile's account
\* touched, and the transfer of a CALL made.
CallCommitted ==
    LET touched == State_touch(CallerAtEntry.state, executor_call.ins.to) IN
    IF executor_call.ins.opcode = CALL
    THEN State_transfer(touched, CallTransfer).state
    ELSE touched

\* C30: for a call to a precompile no frame runs and no substate stays; Ok
\* commits the substate (the touched account and the transfer stay, the
\* unspent gas comes back) and returns Succeed with the precompile's output;
\* Error discards it, gives no gas back and returns empty output; Revert
\* reverts it, gives the child's remaining gas back and returns the payload;
\* Fatal discards it and returns Fatal with empty output; in the three
\* failure cases the world is the one before the call (no touch, no
\* transfer).
C30_PrecompileOutcome ==
    PrecompileCalled =>
        /\ alive
        /\ executor_call.outcome = "exit"
        /\ executor_call.ended = NoReason
        /\ Len(executor.substates) = Len(executor_call.pre.substates)
        /\ executor.frames = executor_call.pre.frames
        /\ Precompiled = "Ok" =>
               /\ executor_call.reason = ExitSucceed(executor_call.precompile.exit_status)
               /\ executor_call.output = executor_call.precompile.output
               /\ CallerAfter.state = CallCommitted
               /\ State_known(CallerAfter.state, executor_call.ins.to)
               /\ CallerRecovers(GasGiven - executor_call.precompile.cost)
        /\ Precompiled = "Error" =>
               /\ executor_call.reason.kind = "Error"
               /\ executor_call.output = <<>>
               /\ CallerAfter.state = CallerAtEntry.state
               /\ CallerRecovers(0)
        /\ Precompiled = "Revert" =>
               /\ executor_call.reason = ExitRevert(executor_call.precompile.exit_status)
               /\ executor_call.output = executor_call.precompile.output
               /\ CallerAfter.state = CallerAtEntry.state
               /\ CallerRecovers(GasGiven)
        /\ Precompiled = "Fatal" =>
               /\ executor_call.reason = ExitFatal(executor_call.precompile.exit_status)
               /\ executor_call.output = <<>>
               /\ CallerAfter.state = CallerAtEntry.state
               /\ CallerRecovers(0)

\* A CALL that sent value and forwarded gas to a precompile whose account
\* had no record was answered with an Error: the account had been touched
\* and the transfer made, and both are undone.
C30_Witness ==
    /\ PrecompileCalled
    /\ executor_call.precompile.kind = "Error"
    /\ executor_call.ins.opcode = CALL
    /\ GasForwarded > 0
    /\ ~State_known(CallerAtEntry.state, executor_call.ins.to)
    /\ State_transfer(CallerAtEntry.state, CallTransfer).ret.kind = "Ok"
    /\ CallCommitted # CallerAfter.state
    /\ ~State_known(CallerAfter.state, executor_call.ins.to)

\* A STATICCALL of the precompile, which makes no transfer, succeeded: the
\* only change of the world is the record the touch gave the precompile.
PrecompileTouched ==
    /\ PrecompileCalled
    /\ Precompiled = "Ok"
    /\ executor_call.ins.opcode = STATICCALL
    /\ ~State_known(CallerAtEntry.state, executor_call.ins.to)
    /\ CallerAfter.state # CallerAtEntry.state

-----------------------------------------------------------------------------
(* Claims about create_address, checked under SpecAddress.                 *)

\* The minimal big-endian bytes of a positive number.
RECURSIVE BigEndian(_)
BigEndian(n) == IF n = 0 THEN <<>> ELSE BigEndian(n \div 256) \o <<n % 256>>

\* The canonical RLP of an unsigned integer and of the list [sender, nonce]
\* (the payload is shorter than 56 bytes).
RlpUint(n) ==
    IF n = 0 THEN <<128>>
    ELSE IF n < 128 THEN <<n>>
    ELSE <<128 + Len(BigEndian(n))>> \o BigEndian(n)
RlpSenderNonce(sender, nonce) ==
    LET payload == <<148>> \o sender \o RlpUint(nonce)
    IN  <<192 + Len(payload)>> \o payload

AddressMade == executor_call.op = "create_address"

\* C28: for every sender and nonce the bytes create_address hashes for the
\* Legacy scheme are the canonical RLP encoding of [sender, nonce].
C28_LegacyIsCanonicalRlp ==
    AddressMade => executor_call.data = RlpSenderNonce(executor.caller, executor.nonce)

\* What the code gives: the canonical bytes for the nonces 1..127; for nonce
\* 0 the nonce is the byte 0 where RLP has 128; for 128..255 the length byte
\* says two bytes and a byte 128 follows the nonce.
LegacyAsCoded ==
    AddressMade =>
        /\ executor.nonce \in 1..127 =>
               executor_call.data = RlpSenderNonce(executor.caller, executor.nonce)
        /\ executor.nonce = 0 =>
               executor_call.data = <<214, 148>> \o executor.caller \o <<0>>
        /\ executor.nonce \in 128..255 =>
               executor_call.data =
                   <<216, 148>> \o executor.caller \o <<130, executor.nonce, 128>>

-----------------------------------------------------------------------------
(* Claims about the host interface, checked under SpecHost.                *)

\* The last operation was a precompile's handle.call; the substate it was
\* made on, before the call.
HandleCalled == alive /\ executor_call.op = "handle_call"
HandleCaller == Current(executor_call.pre.substates)

\* What the subcall is to be charged: the Call cost for its value and its
\* target, and what the memory of its input costs beyond the memory paid for.
HandleCharge ==
    LET sub == executor_call.ins
        words == (sub.input_len + 31) \div 32
        paid == HandleCaller.metadata.gasometer.memory_gas
    IN  1 + (IF sub.value # NoVal /\ sub.value # 0 THEN CallStipend + 1 ELSE 0)
          + (IF sub.to # "precompile"
                  /\ \A i \in 1..Len(executor_call.pre.substates) :
                        sub.to \notin executor_call.pre.substates[i].metadata
                                          .accessed.accessed_addresses
             THEN 2 ELSE 0)
          + (IF words > paid THEN words - paid ELSE 0)
HandleChargeCovered ==
    /\ ~HandleCaller.metadata.gasometer.failed
    /\ Gasometer_gas(HandleCaller.metadata.gasometer) >= HandleCharge

\* The substate the subcall was made on, after the call.
HandleCallerNow ==
    IF executor_call.outcome = "run"
    THEN executor.substates[Len(executor.substates) - 1]
    ELSE Current(executor.substates)

\* C31: a precompile's handle.call charges the Call cost and the memory cost
\* of the input to the current frame before the subcall starts; when the
\* charge fails it returns (Error, empty) and enters no substate, makes no
\* transfer and runs no code.
C31_SubcallCharged ==
    HandleCalled =>
        IF HandleChargeCovered
        THEN Gasometer_total_used_gas(HandleCallerNow.metadata.gasometer) =
                 Gasometer_total_used_gas(HandleCaller.metadata.gasometer) + HandleCharge
                   + (IF executor_call.outcome = "run" THEN GasGiven ELSE 0)
                   - (IF executor_call.ins.value # NoVal /\ executor_call.ins.value # 0
                           /\ executor_call.gas_limit # NoVal
                      THEN executor.config.call_stipend ELSE 0)
        ELSE /\ executor_call.outcome = "exit"
             /\ executor_call.reason.kind = "Error"
             /\ executor_call.output = <<>>
             /\ executor_call.gas_limit = NoVal
             /\ Len(executor.substates) = Len(executor_call.pre.substates)
             /\ executor.frames = executor_call.pre.frames
             /\ Current(executor.substates).state = HandleCaller.state

\* A precompile with gas left, but less than the subcall costs, made a
\* subcall that sends value and has an input.
C31_Witness ==
    /\ HandleCalled
    /\ ~HandleChargeCovered
    /\ Gasometer_gas(HandleCaller.metadata.gasometer) > 0
    /\ executor_call.ins.value = 1
    /\ executor_call.ins.input_len > 0

\* The last operation was a call_inner that entered a substate: a
\* transact_call whose cost was covered, a CALL / STATICCALL that passed
\* pre_validate or a precompile's handle.call whose charge was covered.
\* EntryGas is the caller's remaining gas when call_inner was called,
\* GasAvailable what it may forward, GasRequested the gas asked for (all
\* that may be forwarded when none is named), ValueSent the value of the
\* transfer (0 without one).
CallEntered ==
    /\ alive
    /\ executor_call.op \in {"transact_call", "call", "call_precompile", "handle_call"}
    /\ executor_call.gas_limit # NoVal
OpcodeCall == executor_call.op \in {"call", "call_precompile"}
EntryGas ==
    CASE OpcodeCall -> Gasometer_gas(CallerAtEntry.metadata.gasometer)
      [] executor_call.op = "handle_call" ->
             Gasometer_gas(HandleCaller.metadata.gasometer) - HandleCharge
      [] OTHER ->
             Gasometer_gas(RootBefore.metadata.gasometer)
               - (call_transaction_cost + access_list_cost(executor_call.pre.access_list))
GasAvailable ==
    IF executor_call.op # "transact_call" /\ executor.config.call_l64_after_gas
    THEN l64(EntryGas)
    ELSE EntryGas
GasRequested ==
    IF executor_call.ins.gas = NoVal THEN GasAvailable ELSE executor_call.ins.gas
ValueSent ==
    CASE OpcodeCall -> IF executor_call.ins.opcode = CALL THEN executor_call.ins.value ELSE 0
      [] executor_call.ins.value = NoVal -> 0
      [] OTHER -> executor_call.ins.value
StipendDue ==
    /\ OpcodeCall
    /\ executor_call.ins.opcode = CALL
    /\ executor_call.ins.value # 0

\* C29: the gas limit of the substate call_inner enters is min(requested
\* gas, gas available for forwarding), plus call_stipend exactly when the
\* call is opcode-level, not static, and transfers a non-zero value; every
\* other call (a transact_call, a STATICCALL, a CALL of value 0, a call that
\* is not made by an opcode) gets no stipend.
C29_StipendRule ==
    CallEntered =>
        executor_call.gas_limit =
            Min(GasRequested, GasAvailable)
              + (IF StipendDue THEN executor.config.call_stipend ELSE 0)

\* What call_inner does: the stipend goes to every transfer of non-zero
\* value that does not come from transact_call, the static subcall of a
\* precompile included.
StipendAsCoded ==
    CallEntered =>
        executor_call.gas_limit =
            Min(GasRequested, GasAvailable)
              + (IF executor_call.op # "transact_call" /\ ValueSent # 0
                 THEN executor.config.call_stipend ELSE 0)

\* A precompile's static subcall with a transfer of value 1 got the stipend.
StaticSubcallWithStipend ==
    /\ CallEntered
    /\ executor_call.op = "handle_call"
    /\ executor_call.ins.is_static
    /\ executor_call.ins.value = 1
    /\ executor_call.gas_limit = Min(GasRequested, GasAvailable) + executor.config.call_stipend
    /\ executor.config.call_stipend > 0

\* The top-level frame of the transaction has been entered and has executed
\* no opcode yet.
BeforeFirstOpcode ==
    /\ alive
    /\ Transacting
    /\ executor_call.outcome = "run"
    /\ executor.ops = 0

\* The access set of a substate holds the caller, the target (the address
\* called or created), every address of the access list and every
\* (address, key) pair of the access list.
Seeded(substate) ==
    LET accessed == substate.metadata.accessed IN
    /\ "caller" \in accessed.accessed_addresses
    /\ executor_call.ins.to \in accessed.accessed_addresses
    /\ \A i \in 1..Len(executor.access_list) :
          /\ executor.access_list[i][1] \in accessed.accessed_addresses
          /\ \A j \in 1..Len(executor.access_list[i][2]) :
                <<executor.access_list[i][1], executor.access_list[i][2][j]>>
                    \in accessed.accessed_storage

\* The executor's own substate and the substate of the top-level frame,
\* which enter_substate put on it.
RootSubstate == executor.substates[1]
TopFrameSubstate == executor.substates[2]

\* C32 as claimed: with increase_state_access_gas enabled, before the first
\* opcode of a transaction executes the access set of the top-level frame
\* holds the caller, the target, every address and every (address, key)
\* pair of the access list.
C32_TopFrameSetSeeded ==
    (BeforeFirstOpcode /\ executor.config.increase_state_access_gas) =>
        Seeded(TopFrameSubstate)

\* C32 amended: with increase_state_access_gas enabled, before the first
\* opcode of a transaction executes the access set of the executor's own
\* substate, on which the top-level frame's substate lies, holds the caller,
\* the target, every address and every (address, key) pair of the access
\* list; the top-level frame's own access set is empty.
C32_AccessSetSeeded ==
    (BeforeFirstOpcode /\ executor.config.increase_state_access_gas) =>
        /\ Len(executor.substates) = 2
        /\ Seeded(RootSubstate)
        /\ TopFrameSubstate.metadata.accessed.accessed_addresses = {}
        /\ TopFrameSubstate.metadata.accessed.accessed_storage = {}

\* A create transaction with an access list of two addresses and one key
\* has entered the frame of its init code.
C32_Witness ==
    /\ BeforeFirstOpcode
    /\ executor_call.op = "transact_create"
    /\ Len(executor.access_list) = 2
    /\ \E i \in 1..Len(executor.access_list) : Len(executor.access_list[i][2]) > 0

\* The identity of a substate: its depth and its is_static.
Identity(substate) ==
    [depth |-> substate.metadata.depth, is_static |-> substate.metadata.is_static]

\* The last operation made a call or a create that returned at once, without
\* a frame of its own having run; or the frame that was running returned to
\* the call or create that had entered it.
ReturnedAtOnce ==
    /\ alive
    /\ executor_call.op \in {"transact_call", "transact_create", "call", "create",
                             "call_precompile", "handle_call"}
    /\ executor_call.outcome = "exit"
    /\ executor_call.ended = NoReason
FrameReturned ==
    /\ alive
    /\ executor_call.outcome = "exit"
    /\ executor_call.ended # NoReason \/ executor_call.op = "precompile_return"

\* C34: every substate call_inner or create_inner enters is exited exactly
\* once before the function returns: when a call or create has returned,
\* whatever its outcome and whoever made it, the substate stack is as high
\* as when it was made and the current substate has the depth and the
\* is_static it had; and every frame still running sits right on the
\* substate its call was made from.
C34_SubstatesBalanced ==
    /\ ReturnedAtOnce =>
          /\ Len(executor.substates) = Len(executor_call.pre.substates)
          /\ Identity(Current(executor.substates)) =
                 Identity(Current(executor_call.pre.substates))
    /\ FrameReturned =>
          /\ Len(executor.substates) = Len(executor_call.pre.substates) - 1
          /\ Identity(Current(executor.substates)) =
                 Identity(Current(executor_call.pre.frames).before)
    /\ alive =>
          /\ Len(executor.frames) = Len(executor.substates)
          /\ \A i \in 2..Len(executor.frames) :
                Identity(executor.substates[i - 1]) = Identity(executor.frames[i].before)

\* A precompile that was called statically by a frame made a subcall; the
\* subcall's frame ran and has returned an Error to the precompile.
C34_Witness ==
    /\ FrameReturned
    /\ executor_call.reason.kind = "Error"
    /\ Len(executor.frames) = 3
    /\ Current(executor.frames).kind = "precompile"
    /\ Current(executor.substates).metadata.is_static
    /\ Current(executor.substates).metadata.depth = 1

\* A create_inner has returned: at once, or after the init code's frame ran.
CreateReturnedAtOnce ==
    /\ ReturnedAtOnce
    /\ executor_call.op \in {"transact_create", "create"}
CreateFrameReturned ==
    /\ FrameReturned
    /\ executor_call.op \in {"end", "end_commit_error", "opcode", "call", "create",
                             "call_precompile"}
    /\ EndedFrame.kind = "create"
CreateReturned == CreateReturnedAtOnce \/ CreateFrameReturned

\* The code of the address being created, in the caller's substate when
\* create_inner was called and when it has returned.
CreateReturnedTarget ==
    CASE CreateFrameReturned -> EndedFrame.address
      [] executor_call.op = "transact_create" -> executor_call.ins.to
      [] OTHER ->
           create_address(Current(executor_call.pre.substates).state,
                          IF executor_call.ins.opcode = CREATE2
                          THEN Create2Run(Current(executor_call.pre.frames).address)
                          ELSE Legacy(Current(executor_call.pre.frames).address))
CodeBeforeCreate ==
    IF CreateFrameReturned
    THEN State_code(EndedFrame.before.state, CreateReturnedTarget)
    ELSE State_code(Current(executor_call.pre.substates).state, CreateReturnedTarget)
CodeAfterCreate == State_code(Current(executor.substates).state, CreateReturnedTarget)

\* C35: create_inner changes code(target) only when it returns Succeed with
\* Some(target): whenever it has returned Error, Revert or Fatal, a failure
\* reported by the substate commit included, code(target) is what it was
\* before the create.
C35_CodeOnlyOnSuccess ==
    (CreateReturned /\ executor_call.reason.kind \in {"Error", "Revert", "Fatal"})
        => CodeAfterCreate = CodeBeforeCreate

\* What the code does: a create that has not returned Succeed leaves the
\* code as it was unless the commit of the init code's substate reported
\* the error, and then the returned payload is the code although the
\* create returned the Error.
CommitReportedError ==
    /\ CreateFrameReturned
    /\ executor_call.op = "end_commit_error"
    /\ executor_call.reason = ExitError("Other")
CreateCodeAsSource ==
    /\ (CreateReturned /\ executor_call.reason.kind \in {"Error", "Revert", "Fatal"}
            /\ ~CommitReportedError)
          => CodeAfterCreate = CodeBeforeCreate
    /\ CommitReportedError =>
          /\ CodeAfterCreate = executor_call.out
          /\ executor_call.address = NoAddress

\* The last operation was a host-level mutator asked for by a frame that
\* was static: an SSTORE, LOG or SELFDESTRUCT opcode of a machine, or the
\* handle.log of a precompile.
StaticBefore == Current(executor_call.pre.substates).metadata.is_static
OpcodeMutatorInStatic ==
    /\ executor_call.op = "opcode"
    /\ executor_call.ins.opcode \in {SSTORE, LOG0, SELFDESTRUCT}
    /\ StaticBefore
HandleLogInStatic ==
    /\ executor_call.op = "handle_log"
    /\ StaticBefore

\* The logs, the storage and the deleted set of every substate that is
\* still there are what they were before the last operation.
WorldUntouched ==
    \A i \in 1..Min(Len(executor.substates), Len(executor_call.pre.substates)) :
        LET now == executor.substates[i].state
            was == executor_call.pre.substates[i].state
        IN  /\ now.logs = was.logs
            /\ now.storage = was.storage
            /\ now.deleted = was.deleted

\* C36: while the current frame is static no host-level mutator takes
\* effect by any path: neither an opcode's Handler::log, set_storage or
\* mark_delete nor the PrecompileHandle::log of a precompile running in a
\* static call records a log, writes storage or deletes an account.
C36_StaticFrameMutatesNothing ==
    (OpcodeMutatorInStatic \/ HandleLogInStatic) => WorldUntouched

\* What the code does: the opcodes are stopped by pre_validate and end the
\* frame with an Error, and the precompile's log is recorded in the static
\* frame's substate.
StaticMutatorsAsSource ==
    /\ OpcodeMutatorInStatic =>
          /\ WorldUntouched
          /\ executor_call.reason.kind = "Error"
    /\ HandleLogInStatic =>
          /\ Len(executor.substates) = Len(executor_call.pre.substates)
          /\ Current(executor.substates).state.logs
                 = Append(Current(executor_call.pre.substates).state.logs,
                          Current(executor_call.pre.frames).address)

\* The last operation was a SELFDESTRUCT whose mark_delete succeeded: the
\* frame ended with Suicided and its world went to the caller's substate.
MarkDeleteDone ==
    /\ alive
    /\ executor_call.op = "opcode"
    /\ executor_call.ins.opcode = SELFDESTRUCT
    /\ executor_call.ended = ExitSucceed("Suicided")
    /\ executor_call.reason = ExitSucceed("Suicided")
MarkDeleteAddress == EndedFrame.address
MarkDeleteTarget == executor_call.ins.to

\* The balances before mark_delete and after it, and their sums.
BalanceBefore == Current(executor_call.pre.substates).state.balance
BalanceAfter == Current(executor.substates).state.balance
RECURSIVE SumOver(_, _)
SumOver(balance, addresses) ==
    IF addresses = {} THEN 0
    ELSE LET a == CHOOSE x \in addresses : TRUE
         IN  balance[a] + SumOver(balance, addresses \ {a})

\* C37: when mark_delete(address, target) has succeeded balance(address) is
\* 0, address is marked deleted and balance(target) has grown by exactly the
\* former balance of address, so that the sum of all balances is conserved,
\* for every target, address itself included.
C37_MarkDeleteConserves ==
    MarkDeleteDone =>
        /\ BalanceAfter[MarkDeleteAddress] = 0
        /\ MarkDeleteAddress \in Current(executor.substates).state.deleted
        /\ BalanceAfter[MarkDeleteTarget] =
               BalanceBefore[MarkDeleteTarget] + BalanceBefore[MarkDeleteAddress]
        /\ SumOver(BalanceAfter, DOMAIN BalanceAfter) = SumOver(BalanceBefore, DOMAIN BalanceBefore)

\* What the code does: the account is left with nothing and marked
\* deleted; another account named as the target gains the balance, and a
\* balance sent to the account itself is reset with it and lost.
MarkDeleteAsSource ==
    MarkDeleteDone =>
        /\ BalanceAfter[MarkDeleteAddress] = 0
        /\ MarkDeleteAddress \in Current(executor.substates).state.deleted
        /\ MarkDeleteTarget # MarkDeleteAddress =>
              /\ BalanceAfter[MarkDeleteTarget] =
                     BalanceBefore[MarkDeleteTarget] + BalanceBefore[MarkDeleteAddress]
              /\ SumOver(BalanceAfter, DOMAIN BalanceAfter) = SumOver(BalanceBefore, DOMAIN BalanceBefore)
        /\ MarkDeleteTarget = MarkDeleteAddress =>
              SumOver(BalanceAfter, DOMAIN BalanceAfter) =
                  SumOver(BalanceBefore, DOMAIN BalanceBefore) - BalanceBefore[MarkDeleteAddress]

\* The last operation was an opcode of a machine, which pre_validate saw
\* first; what dynamic_opcode_cost answered for it in the substates as they
\* were, and whether it named a storage target.
Validating ==
    /\ executor_call.op \in {"opcode", "call", "create", "call_precompile"}
    /\ static_opcode_cost(executor_call.ins.opcode) = NoVal
ValidatedFrame == Current(executor_call.pre.frames)
Asked ==
    dynamic_opcode_cost(ValidatedFrame.address, executor_call.ins,
                        Current(executor_call.pre.substates).metadata.is_static,
                        executor_call.pre.substates)
HasTarget == Validating /\ Asked.ret.kind = "Ok" /\ Asked.target.kind # "None"
PreValidated ==
    pre_validate(executor_call.pre.substates, ValidatedFrame.address, executor_call.ins)

\* The target is in the access set of the metadata; it is in no access set
\* of the substates.
TargetIn(metadata) ==
    IF Asked.target.kind = "Slot"
    THEN <<Asked.target.address, Slot>> \in metadata.accessed.accessed_storage
    ELSE Asked.target.address \in metadata.accessed.accessed_addresses
TargetColdIn(substates) ==
    IF Asked.target.kind = "Slot"
    THEN State_is_storage_cold(substates, Asked.target.address, Slot)
    ELSE State_is_cold(substates, Asked.target.address)

\* The opcode went on in its frame, or its charge failed and ended the frame.
SteppedOn == HasTarget /\ executor_call.op = "opcode" /\ executor_call.outcome = "step"
ChargeFailed == HasTarget /\ PreValidated.ret.kind # "Ok"

\* C38: pre_validate marks an opcode's storage target warm in the current
\* frame only after the opcode's dynamic cost has been recorded: the opcode
\* is charged what the cost is with the access sets as they were before it
\* (cold at the first access), then the target is in the frame's access set
\* and the same opcode would cost the warm price; when the charge fails the
\* frame ends with that error, its access set is as it was when it is
\* dropped and the access sets of the substates left are as they were.
C38_WarmAfterCharge ==
    /\ HasTarget =>
          LET before == Current(executor_call.pre.substates).metadata
              after == Current(PreValidated.substates).metadata
          IN  /\ PreValidated.ret.kind = "Ok" =>
                    /\ after.gasometer.used_gas - before.gasometer.used_gas = Asked.gas_cost
                    /\ TargetIn(after)
                    /\ ~TargetColdIn(PreValidated.substates)
                    /\ dynamic_opcode_cost(ValidatedFrame.address, executor_call.ins,
                                           before.is_static, PreValidated.substates).gas_cost
                           = Asked.gas_cost
                               - cold_cost(is_cold(executor_call.pre.substates,
                                                   Asked.target.address,
                                                   IF Asked.target.kind = "Slot"
                                                   THEN Slot ELSE NoKey))
              /\ PreValidated.ret.kind # "Ok" => after.accessed = before.accessed
    /\ SteppedOn =>
          Current(executor.substates).metadata = Current(PreValidated.substates).metadata
    /\ ChargeFailed =>
          /\ executor_call.outcome = "exit"
          /\ executor_call.ended = ExitError(PreValidated.ret.err)
          /\ Len(executor.substates) = Len(executor_call.pre.substates) - 1
          /\ \A i \in 1..Len(executor.substates) :
                executor.substates[i].metadata.accessed
                    = executor_call.pre.substates[i].metadata.accessed

\* A frame has executed SSTORE a second time: the slot was in the frame's
\* own access set, put there by the first, and the charge was the warm one.
C38_Witness ==
    /\ SteppedOn
    /\ executor_call.ins.opcode = SSTORE
    /\ TargetIn(Current(executor_call.pre.substates).metadata)
    /\ Current(executor.substates).metadata.gasometer.used_gas
           = Current(executor_call.pre.substates).metadata.gasometer.used_gas + 1

\* The first SSTORE of a frame, charged cold; and one whose cold charge the
\* frame's gas did not cover.
ChargedCold ==
    /\ SteppedOn
    /\ executor_call.ins.opcode = SSTORE
    /\ TargetColdIn(executor_call.pre.substates)
    /\ Current(executor.substates).metadata.gasometer.used_gas
           = Current(executor_call.pre.substates).metadata.gasometer.used_gas + 1 + cold_cost(TRUE)
ColdChargeFailed ==
    /\ ChargeFailed
    /\ PreValidated.ret = Err("OutOfGas")
    /\ TargetColdIn(executor_call.pre.substates)

-----------------------------------------------------------------------------
(* Claims about the interrupt resolutions, checked under SpecRuntime.      *)

UnhandledInterrupt == ExitFatal("UnhandledInterrupt")

\* C33: when a ResolveCreate or a ResolveCall is dropped, the runtime's
\* status and its machine's PC both become Err(Fatal(UnhandledInterrupt)),
\* whatever they were, and nothing else of the machine changes; every step
\* of that machine from then on (as long as exit is not called on it with
\* another reason) returns Exit(Fatal(UnhandledInterrupt)).
C33_DropForcesUnhandledInterrupt ==
    /\ machine_call.op = "drop" =>
          /\ machine.status = StatusErr(UnhandledInterrupt)
          /\ machine.machine.position = PosErr(UnhandledInterrupt)
          /\ machine.machine = Machine_exit(machine_call.pre.machine, UnhandledInterrupt)
    /\ (machine_call.op = "step" /\ machine_call.dropped) =>
          /\ machine_call.ret = CaptureExit(UnhandledInterrupt)
          /\ machine = machine_call.pre

\* A step was made after the drop of a resolution that found the machine
\* exited with another reason.
C33_Witness ==
    /\ machine_call.op = "step"
    /\ machine_call.dropped
    /\ machine_call.before_drop.machine.position.kind = "Err"
    /\ machine_call.before_drop.machine.position # PosErr(UnhandledInterrupt)

-----------------------------------------------------------------------------
(* Claims about resize, checked under SpecResize.                          *)

Resized == machine_call.op = "resize"
OldLen == Len(machine_call.pre.data)
Kept == Min(OldLen, machine_call.size)

\* C39: resize(size, v) on a ManagedBuffer or ManagedVec leaves len == size,
\* keeps the first min(old_len, size) elements exactly as they were and
\* makes every added element v; a resize to the current length changes
\* nothing.
C39_ResizeKeepsPrefix ==
    Resized =>
        /\ Len(machine.data) = machine_call.size
        /\ \A i \in 1..Kept : machine.data[i] = machine_call.pre.data[i]
        /\ \A i \in (OldLen + 1)..machine_call.size : machine.data[i] = machine_call.value
        /\ machine_call.size = OldLen => machine.data = machine_call.pre.data

\* What the code does, for both types: the length is the size; a size
\* above the old length keeps what was there and adds v; any other size,
\* the current length included, leaves nothing but v.
ResizeAsSource ==
    Resized =>
        /\ Len(machine.data) = machine_call.size
        /\ machine_call.size > OldLen =>
              /\ \A i \in 1..OldLen : machine.data[i] = machine_call.pre.data[i]
              /\ \A i \in (OldLen + 1)..machine_call.size :
                    machine.data[i] = machine_call.value
        /\ machine_call.size <= OldLen =>
              \A i \in 1..machine_call.size : machine.data[i] = machine_call.value

\* A resize to the current length, or to a shorter one, that overwrote an
\* element of the prefix, on either type.
ResizeOverwrote ==
    /\ Resized
    /\ \E i \in 1..Kept : machine.data[i] # machine_call.pre.data[i]

====
